---- MODULE Spec2Model ----
(***************************************************************************)
(* State-machine model of the arena simulation core in src/game.js.        *)
(*                                                                         *)
(* Conventions                                                             *)
(*  - Time is in integer milliseconds (performance.now() and the frame     *)
(*    timestamps of requestAnimationFrame share one clock, `clock').       *)
(*  - Health is kept in thousandths of a health point (regeneration adds   *)
(*    fractions of a point per frame); attack, defense, maxHp, damage and  *)
(*    scores are the integers the code computes.                           *)
(*  - Math.round(x) is floor(x + 0.5); fractions such as 1.2 or 0.58 are   *)
(*    carried as exact rationals (RoundDiv).                               *)
(*  - Positions are not part of the state: the outcome of every distance   *)
(*    test of a tick (melee range, part overlap, projectile capsule) is an *)
(*    input of that tick, like the values drawn from Math.random().        *)
(*  - `state' is the JS object `state' plus history fields that the code   *)
(*    does not have.  Six are filled while a tick runs and moved to its    *)
(*    record in hist.ticks when it ends: calls (its applyDamage calls),    *)
(*    shots (the projectiles it processed), steps (the steps it reached),  *)
(*    botRec (its updateBotPlayer), drawRec (its drawParts) and threw (a   *)
(*    TypeError was raised and is unwinding the tick).  Two                *)
(*    are kept: bossLog (boss creations and defeats since the reset) and   *)
(*    waveLog (the tryWave calls since the reset).  Every entity carries   *)
(*    meleeAt, and every fighter castAt: the time of its last melee damage *)
(*    and of its last successful cast, -1 when there was none.             *)
(***************************************************************************)
EXTENDS Integers, Sequences, FiniteSets, TLC

VARIABLES
  clock,        \* current time in ms (performance.now())
  paused,       \* let paused
  lastT,        \* let lastT
  loopRunning,  \* let loopRunning
  pending,      \* number of tick callbacks queued with requestAnimationFrame
  keys,         \* const keys = new Set()
  state,        \* const state = {...}
  hist,         \* history of the scheduler (pause, resume and tick records)
  steps         \* number of handlers run so far (bounds the exploration)

vars == <<clock, paused, lastT, loopRunning, pending, keys, state, hist, steps>>

(***************************************************************************)
(* Bounds of the exploration (not program constants).                      *)
(***************************************************************************)
MaxSteps == 2
NumEnemies == 1
MaxEvents == 1

(***************************************************************************)
(* Program constants (src/game.js lines 17-89).                            *)
(***************************************************************************)
EDGE_CAP == 32
PLAYER_EDGE_CAP == 26
PARTS_PER_EDGE == 3
PARTS_PER_PLASMA == 3
PLASMA_MAX == 10
PLASMA_ATK_PER_LEVEL == 2
PLASMA_FIRST_HIT_MULT == 3
WAVE_MAX == 8
WAVE_PARTS_PER_LEVEL == 2
WAVE_COOLDOWN_MS == 950
WAVE_RANGE == 520
WAVE_SPEED == 980
SCORE_PER_EDGE_PART == 5
SCORE_PER_REGEN_PART == 6
SCORE_PER_WAVE_PART == 10
SCORE_PER_ENEMY_KO == 50
SCORE_PER_BOSS_KO == 250
SCORE_ORB_LIFETIME_MS == 12000
HIT_COOLDOWN_MS == 320
PLAYER_RADIUS == 18
DASH_TIME_MS == 125
DASH_COOLDOWN_MS == 850
PART_SPAWN_INTERVAL_MS == 800
PART_MAX_ON_FIELD == 28
BOSS_MIN_SPAWN_MS == 24000
BOSS_MAX_SPAWN_MS == 45000
BOSS_ATK_BONUS == 3
BOSS_DEF_BONUS == 2
\* Fractional constants, as numerators over the stated denominator.
ATK_PER_EDGE_x10 == 12            \* ATK_PER_EDGE = 1.2
DEF_PER_EDGE_x10 == 11            \* DEF_PER_EDGE = 1.1
MAXHP_PER_EDGE_x10 == 22          \* MAXHP_PER_EDGE = 2.2
WAVE_DAMAGE_MULT_x100 == 200      \* WAVE_DAMAGE_MULT = 2.0
BOSS_HP_MULT_x100 == 370          \* BOSS_HP_MULT = 3.7
REGEN_BOOST_PER_PICKUP_x100 == 15 \* REGEN_BOOST_PER_PICKUP = 0.15
MAX_DT_MS == 33                   \* Math.min(0.033, ...) in tick
BOT_STUCK_FRAMES == 10
BOT_ESCAPE_MS == 550
WORLD_W == 4200
WORLD_H == 2600
OBSTACLE_COUNT == 28
OBSTACLE_ATTEMPTS == 4000          \* the literal in buildObstacles
ENEMY_COUNT == 9                  \* the model keeps NumEnemies of them

(***************************************************************************)
(* Helpers                                                                 *)
(***************************************************************************)
Min(a, b) == IF a < b THEN a ELSE b
Max(a, b) == IF a > b THEN a ELSE b

\* const clamp = (v, a, b) => Math.max(a, Math.min(b, v))
clamp(v, a, b) == Max(a, Min(b, v))

\* Math.round(n / d) for d > 0: floor(n/d + 1/2)
RoundDiv(n, d) == (2 * n + d) \div (2 * d)

\* Math.ceil(n / d) for n >= 0, d > 0
CeilDiv(n, d) == (n + d - 1) \div d

\* health points -> thousandths
Milli(x) == x * 1000

RECURSIVE Pow2Below(_)
\* the largest power of two strictly below k (k >= 2)
Pow2Below(k) == IF k <= 2 THEN 1 ELSE 2 * Pow2Below((k + 1) \div 2)

\* Math.floor(s * SCORE_DROP_FRACTION_PVP) in IEEE-754 double arithmetic, for an
\* integer s >= 0.  The double nearest 0.35 is 0.35 - 0.4 * 2^-54, so the
\* product is below the real 0.35*s by s * 0.4 * 2^-54.  When 0.35*s is not an
\* integer the floor is unaffected.  When 0.35*s is an integer k (s = 20n,
\* k = 7n, 2^e < k <= 2^(e+1)) the product rounds back to k unless the error
\* exceeds half a unit in the last place below k, 2^(e-53), that is unless
\* 4n > 2^e; then the product is the double just below k and the floor is
\* k - 1 (s = 180 gives 62, not 63).
FloorScoreDrop(s) ==
  IF s > 0 /\ s % 20 = 0 /\ 4 * (s \div 20) > Pow2Below(7 * (s \div 20))
    THEN 7 * (s \div 20) - 1
    ELSE (35 * s) \div 100

RECURSIVE SeqSum(_)
SeqSum(s) == IF s = <<>> THEN 0 ELSE Head(s) + SeqSum(Tail(s))

\* s without its i-th element: Array.prototype.splice(i, 1)
splice(s, i) == SubSeq(s, 1, i - 1) \o SubSeq(s, i + 1, Len(s))

(***************************************************************************)
(* Entity references.  The code passes object references; the model passes *)
(* the place the object lives in: state.player, state.botPlayer,           *)
(* state.enemies[i], state.boss, or null.                                  *)
(***************************************************************************)
Ref(k, i) == [k |-> k, i |-> i]
PLAYER == Ref("player", 0)
BOT == Ref("bot", 0)
BOSS == Ref("boss", 0)
NULL == Ref("null", 0)
ENEMY(i) == Ref("enemy", i)
EnemyIds == 1..NumEnemies

(***************************************************************************)
(* Stats                                                                   *)
(***************************************************************************)
\* computeStats counting the edges above 3
computeStatsFrom3(edges) ==
  LET extra == Max(0, edges - 3)
  IN [atk   |-> RoundDiv(100 + extra * ATK_PER_EDGE_x10, 10),
      def   |-> RoundDiv(100 + extra * DEF_PER_EDGE_x10, 10),
      maxHp |-> RoundDiv(1000 + extra * MAXHP_PER_EDGE_x10, 10)]

computeStats(edges) ==
  LET extra == Max(0, edges - 4)
  IN [atk   |-> RoundDiv(100 + extra * ATK_PER_EDGE_x10, 10),
      def   |-> RoundDiv(100 + extra * DEF_PER_EDGE_x10, 10),
      maxHp |-> RoundDiv(1000 + extra * MAXHP_PER_EDGE_x10, 10)]

\* a recompute in which plasma feeds defense as well
recomputeFighterStatsArmour(p) ==
  LET base == computeStats(p.edges)
      q == [p EXCEPT !.atk = base.atk + p.plasma * PLASMA_ATK_PER_LEVEL,
                     !.def = base.def + p.plasma,
                     !.maxHp = base.maxHp]
  IN [q EXCEPT !.hp = clamp(q.hp, 0, Milli(q.maxHp))]

recomputeFighterStats(p) ==
  LET base == computeStats(p.edges)
      q == [p EXCEPT !.atk = base.atk + p.plasma * PLASMA_ATK_PER_LEVEL,
                     !.def = base.def,
                     !.maxHp = base.maxHp]
  IN [q EXCEPT !.hp = clamp(q.hp, 0, Milli(q.maxHp))]

addPlasma(p, amount) ==
  LET q == [p EXCEPT !.plasma = clamp(p.plasma + amount, 0, PLASMA_MAX)]
  IN IF q.plasma # p.plasma
       THEN LET r == recomputeFighterStats(q)
            IN [r EXCEPT !.hp = clamp(r.hp + Milli(RoundDiv(r.maxHp * 6, 100)),
                                      0, Milli(r.maxHp))]
       ELSE q

\* addWave without the Math.min
addWaveNoClamp(p, amount) == [p EXCEPT !.wave = p.wave + amount]

addWave(p, amount) == [p EXCEPT !.wave = clamp(p.wave + amount, 0, WAVE_MAX)]

(***************************************************************************)
(* Entities                                                                *)
(***************************************************************************)
makeFighter(tint) ==
  LET base == computeStats(4)
  IN [tint |-> tint,
      edges |-> 4, parts |-> 0,
      plasma |-> 0, plasmaParts |-> 0,
      wave |-> 0, waveParts |-> 0,
      regenParts |-> 0,
      atk |-> base.atk, def |-> base.def, maxHp |-> base.maxHp,
      hp |-> Milli(base.maxHp),
      hitReadyAt |-> 0,
      dashReadyAt |-> 0, dashingUntil |-> 0,
      plasmaPrimed |-> TRUE,
      lastLandedHitAt |-> -1000000000,
      waveReadyAt |-> 0,
      score |-> 0,
      stuckFrames |-> 0,
      escapeUntil |-> 0,
      invulnUntil |-> 0,
      meleeAt |-> -1, castAt |-> -1]

makePlayer == makeFighter("player")
makeBotPlayer == makeFighter("bot")

EnemyTypes == {"chaser", "skitter", "brute"}

\* type: the outcome of the Math.random() roll (or typeOverride)
makeEnemy(i, type) ==
  LET edges == IF type = "brute" THEN 6 ELSE 4
      base == computeStats(edges)
  IN [id |-> i, type |-> type,
      edges |-> edges,
      atk |-> IF type = "brute" THEN base.atk + 2
              ELSE IF type = "skitter" THEN Max(6, base.atk - 1) ELSE base.atk,
      def |-> IF type = "skitter" THEN Max(6, base.def - 1) ELSE base.def,
      maxHp |-> IF type = "brute" THEN RoundDiv(base.maxHp * 125, 100)
                ELSE IF type = "skitter" THEN RoundDiv(base.maxHp * 85, 100)
                ELSE base.maxHp,
      hp |-> Milli(base.maxHp),
      hitReadyAt |-> 0,
      meleeAt |-> -1]

makeBoss ==
  LET base == computeStats(10)
      maxHp == RoundDiv(base.maxHp * BOSS_HP_MULT_x100, 100)
  IN [id |-> 0, type |-> "boss",
      edges |-> 10,
      atk |-> base.atk + BOSS_ATK_BONUS,
      def |-> base.def + BOSS_DEF_BONUS,
      maxHp |-> maxHp, hp |-> Milli(maxHp),
      hitReadyAt |-> 0,
      meleeAt |-> -1]

\* state.boss = null
NoBoss == [id |-> 0, type |-> "null", edges |-> 0, atk |-> 0, def |-> 0,
           maxHp |-> 0, hp |-> 0, hitReadyAt |-> 0, meleeAt |-> -1]

(***************************************************************************)
(* Access to the entity a reference denotes.                               *)
(***************************************************************************)
Get(st, ref) ==
  CASE ref.k = "player" -> st.player
    [] ref.k = "bot"    -> st.botPlayer
    [] ref.k = "boss"   -> st.boss
    [] ref.k = "enemy"  -> st.enemies[ref.i]

Put(st, ref, ent) ==
  CASE ref.k = "player" -> [st EXCEPT !.player = ent]
    [] ref.k = "bot"    -> [st EXCEPT !.botPlayer = ent]
    [] ref.k = "boss"   -> [st EXCEPT !.boss = ent]
    [] ref.k = "enemy"  -> [st EXCEPT !.enemies[ref.i] = ent]

\* the test with the bot left out
isFighterPlayerOnly(ref) == ref.k = "player"

\* x === state.player || x === state.botPlayer
isFighter(ref) == ref.k \in {"player", "bot"}

\* truthiness of ent.plasmaPrimed (undefined on enemies and the boss)
Primed(ent) == IF "plasmaPrimed" \in DOMAIN ent THEN ent.plasmaPrimed ELSE FALSE

\* the spawn protection left out
InvulnerableNever(ent, now) == FALSE

\* defender.invulnUntil && now < defender.invulnUntil
Invulnerable(ent, now) ==
  IF "invulnUntil" \in DOMAIN ent
    THEN ent.invulnUntil # 0 /\ now < ent.invulnUntil
    ELSE FALSE

ScoreOf(ent) == IF "score" \in DOMAIN ent THEN ent.score ELSE 0

\* ent.plasma (undefined on enemies and the boss)
PlasmaOf(ent) == IF "plasma" \in DOMAIN ent THEN ent.plasma ELSE 0

\* state.boss is not null
bossAlive(st) == st.boss.type # "null"

\* the fields of the JS object (state without the history fields)
Sim(st) ==
  [f \in DOMAIN st \ {"calls", "shots", "steps", "threw", "botRec", "drawRec",
                       "bossLog", "waveLog"}
     |-> st[f]]

(***************************************************************************)
(* Inputs of a tick: the values drawn from Math.random() and the outcomes  *)
(* of the distance tests.                                                  *)
(*   jit        rand(-2, 2) of applyDamage                                 *)
(*   grow       Math.random() < 0.65 in respawnEnemy                       *)
(*   eat        Math.random() < 0.40 in updateEnemyAI                      *)
(*   kind       choosePartKind()                                           *)
(*   bossDelay  rand(BOSS_MIN_SPAWN_MS, BOSS_MAX_SPAWN_MS)                 *)
(*   escapeMs   rand(120, 280) of the bot's escape                         *)
(*   bossNear   bd < preferRange: the bot is within 520 of the boss        *)
(*   ev         the distance tests that succeed, and the bot's wave roll   *)
(***************************************************************************)
Ev(t, a, b, i) == [t |-> t, a |-> a, b |-> b, i |-> i]

\* dist2(a, b) <= HIT_RANGE^2 (or (HIT_RANGE + 14)^2 for the boss)
near(in, a, b) == Ev("near", a, b, 0) \in in.ev
\* dist2(who, partsOnField[i]) <= rr * rr
overlaps(in, who, i) == Ev("pick", who, NULL, i) \in in.ev
\* rectHitProjectile(pr, t) at its call in updateProjectiles, for the
\* projectile i and the target t
hits(in, i, target) == Ev("hit", target, NULL, i) \in in.ev
\* b.wave > 0 && Math.random() < 0.018 (0.010): the roll succeeds
botRollsWave(in) == Ev("cast", BOT, NULL, 0) \in in.ev
\* trying && moved < BOT_STUCK_DIST_EPS
botStuck(in) == Ev("stuck", BOT, NULL, 0) \in in.ev

(***************************************************************************)
(* Regen                                                                   *)
(***************************************************************************)
\* dt in ms; regenRate is 0.8 for every fighter
regenTick(p, dt) ==
  LET edgeBonus_x100 == Max(0, p.edges - 4) * 2
      rate_x100 == 80 + p.regenParts * REGEN_BOOST_PER_PICKUP_x100
      \* rate * (1 + edgeBonus) * dt, in thousandths of a point
      gainMilli == (rate_x100 * (100 + edgeBonus_x100) * dt) \div 10000
  IN [p EXCEPT !.hp = clamp(p.hp + gainMilli, 0, Milli(p.maxHp))]

(***************************************************************************)
(* Parts                                                                   *)
(***************************************************************************)
PartKinds == {"edge", "regen", "wave"}

Part(kind, value, born) == [kind |-> kind, value |-> value, born |-> born]

\* kind: the outcome of choosePartKind(); born: performance.now()
spawnPart(st, kind, now) ==
  [st EXCEPT !.partsOnField = Append(@, Part(kind, 0, now))]

RECURSIVE orbValues(_, _, _)
\* the values of the orbs i .. chunks-1 of spawnScoreOrbs' loop
orbValues(remaining, chunks, i) ==
  IF i >= chunks THEN <<>>
  ELSE LET val == IF i = chunks - 1 THEN remaining
                  ELSE remaining \div (chunks - i)
       IN <<val>> \o orbValues(remaining - val, chunks, i + 1)

\* spawnScoreOrbs with every orb but the last worth remaining / chunks
spawnScoreOrbsFlat(st, scoreAmount, now) ==
  LET remaining == Max(0, scoreAmount)
      chunks == clamp(CeilDiv(remaining, 35), 2, 7)
      vals == [i \in 1..chunks |->
                 IF i = chunks THEN remaining - (chunks - 1) * (remaining \div chunks)
                 ELSE remaining \div chunks]
  IN [st EXCEPT !.partsOnField =
        @ \o [i \in 1..Len(vals) |-> Part("score", vals[i], now)]]

spawnScoreOrbs(st, scoreAmount, now) ==
  LET remaining == Max(0, scoreAmount)
      chunks == clamp(CeilDiv(remaining, 35), 2, 7)
      vals == orbValues(remaining, chunks, 0)
  IN [st EXCEPT !.partsOnField =
        @ \o [i \in 1..Len(vals) |-> Part("score", vals[i], now)]]

(***************************************************************************)
(* Pickups                                                                 *)
(***************************************************************************)
\* pickupPart with the edge gained on the first of every three edge parts
pickupPartEarly(f, part) ==
  IF part.kind = "score" THEN [f EXCEPT !.score = @ + part.value]
  ELSE IF part.kind = "edge" THEN
    IF f.edges < PLAYER_EDGE_CAP THEN
      LET f1 == [f EXCEPT !.parts = @ + 1, !.score = @ + SCORE_PER_EDGE_PART]
      IN IF f1.parts % PARTS_PER_EDGE = 1
           THEN LET f2 == [f1 EXCEPT !.edges = clamp(f1.edges + 1, 3, PLAYER_EDGE_CAP)]
                IN IF f2.edges # f1.edges
                     THEN LET f3 == recomputeFighterStats(f2)
                          IN [f3 EXCEPT !.hp =
                                clamp(f3.hp + Milli(RoundDiv(12 * f3.maxHp, 100)),
                                      0, Milli(f3.maxHp))]
                     ELSE f2
           ELSE f1
    ELSE
      LET f1 == [f EXCEPT !.plasmaParts = @ + 1, !.score = @ + SCORE_PER_EDGE_PART]
      IN IF f1.plasmaParts % PARTS_PER_PLASMA = 0 THEN addPlasma(f1, 1) ELSE f1
  ELSE IF part.kind = "regen" THEN
    [f EXCEPT !.regenParts = @ + 1, !.score = @ + SCORE_PER_REGEN_PART]
  ELSE IF part.kind = "wave" THEN
    LET f1 == [f EXCEPT !.waveParts = @ + 1, !.score = @ + SCORE_PER_WAVE_PART]
    IN IF f1.waveParts % WAVE_PARTS_PER_LEVEL = 0 THEN addWave(f1, 1) ELSE f1
  ELSE f

pickupPart(f, part) ==
  IF part.kind = "score" THEN [f EXCEPT !.score = @ + part.value]
  ELSE IF part.kind = "edge" THEN
    IF f.edges < PLAYER_EDGE_CAP THEN
      LET f1 == [f EXCEPT !.parts = @ + 1, !.score = @ + SCORE_PER_EDGE_PART]
      IN IF f1.parts % PARTS_PER_EDGE = 0
           THEN LET f2 == [f1 EXCEPT !.edges = clamp(f1.edges + 1, 3, PLAYER_EDGE_CAP)]
                IN IF f2.edges # f1.edges
                     THEN LET f3 == recomputeFighterStats(f2)
                          IN [f3 EXCEPT !.hp =
                                clamp(f3.hp + Milli(RoundDiv(12 * f3.maxHp, 100)),
                                      0, Milli(f3.maxHp))]
                     ELSE f2
           ELSE f1
    ELSE
      LET f1 == [f EXCEPT !.plasmaParts = @ + 1, !.score = @ + SCORE_PER_EDGE_PART]
      IN IF f1.plasmaParts % PARTS_PER_PLASMA = 0 THEN addPlasma(f1, 1) ELSE f1
  ELSE IF part.kind = "regen" THEN
    [f EXCEPT !.regenParts = @ + 1, !.score = @ + SCORE_PER_REGEN_PART]
  ELSE IF part.kind = "wave" THEN
    LET f1 == [f EXCEPT !.waveParts = @ + 1, !.score = @ + SCORE_PER_WAVE_PART]
    IN IF f1.waveParts % WAVE_PARTS_PER_LEVEL = 0 THEN addWave(f1, 1) ELSE f1
  ELSE f

RECURSIVE pickupLoop(_, _, _, _)
\* for (let i = partsOnField.length - 1; i >= 0; i--) of updatePlayer and
\* updateBotPlayer (i is 1-based here)
pickupLoop(st, who, in, i) ==
  IF i < 1 THEN st
  ELSE IF overlaps(in, who, i)
    THEN LET part == st.partsOnField[i]
             st1 == [st EXCEPT !.partsOnField = splice(@, i)]
         IN pickupLoop(Put(st1, who, pickupPart(Get(st1, who), part)), who, in, i - 1)
    ELSE pickupLoop(st, who, in, i - 1)

(***************************************************************************)
(* Wave projectiles                                                        *)
(***************************************************************************)
Projectile(owner, waveLevel, now) ==
  [owner |-> owner, age |-> 0, damageMult_x100 |-> WAVE_DAMAGE_MULT_x100,
   waveLevel |-> waveLevel, born |-> now]

\* One record per tryWave call, appended to state.waveLog: the caster's wave
\* level, cooldown and last cast at the call, whether the call cast, the
\* number of projectiles it added, the cooldown it left, and whether it
\* changed the simulation state.
logWave(st0, st1, who, now, cast) ==
  [st1 EXCEPT !.waveLog =
     Append(@, [who |-> who, now |-> now, cast |-> cast,
                wave |-> Get(st0, who).wave,
                readyBefore |-> Get(st0, who).waveReadyAt,
                readyAfter |-> Get(st1, who).waveReadyAt,
                castBefore |-> Get(st0, who).castAt,
                added |-> Len(st1.projectiles) - Len(st0.projectiles),
                changed |-> Sim(st1) # Sim(st0)])]

\* the cast itself: the cooldown is set and the projectile pushed
tryWave_cast(st, who, now) ==
  LET p == Get(st, who)
      st1 == Put(st, who, [p EXCEPT !.waveReadyAt = now + WAVE_COOLDOWN_MS,
                                    !.castAt = now])
  IN [st1 EXCEPT !.projectiles = Append(@, Projectile(who, p.wave, now))]

\* tryWave without the cooldown test
tryWaveNoCooldown(st, who, now) ==
  IF Get(st, who).wave <= 0 THEN logWave(st, st, who, now, FALSE)
  ELSE logWave(st, tryWave_cast(st, who, now), who, now, TRUE)

tryWave(st, who, now) ==
  IF Get(st, who).wave <= 0 THEN logWave(st, st, who, now, FALSE)
  ELSE IF Get(st, who).waveReadyAt > now THEN logWave(st, st, who, now, FALSE)
  ELSE logWave(st, tryWave_cast(st, who, now), who, now, TRUE)

(***************************************************************************)
(* Dash                                                                    *)
(***************************************************************************)
tryDash(p, now) ==
  IF p.dashReadyAt > now THEN p
  ELSE [p EXCEPT !.dashReadyAt = now + DASH_COOLDOWN_MS,
                 !.dashingUntil = now + DASH_TIME_MS]

(***************************************************************************)
(* Boss scheduling                                                         *)
(***************************************************************************)
\* the boss timer set to the current time
scheduleNextBossNow(st, now, in) == [st EXCEPT !.nextBossAt = now]

\* state.nextBossAt = now + rand(BOSS_MIN_SPAWN_MS, BOSS_MAX_SPAWN_MS)
scheduleNextBoss(st, now, in) == [st EXCEPT !.nextBossAt = now + in.bossDelay]

\* One record per boss creation, boss defeat and reset, appended to
\* state.bossLog: the time, whether a boss was alive and the value of
\* nextBossAt just before, and the value of nextBossAt it left.
logBoss(st0, st1, what, now) ==
  [st1 EXCEPT !.bossLog =
     Append(@, [what |-> what, at |-> now,
                bossBefore |-> bossAlive(st0), dueBefore |-> st0.nextBossAt,
                nextBossAt |-> st1.nextBossAt])]

\* state.boss = makeBoss(); ...; scheduleNextBoss(now)
maybeSpawnBoss_create(st, now, in) ==
  logBoss(st,
          scheduleNextBoss([st EXCEPT !.boss = makeBoss,
                                      !.message = "A BOSS has appeared!",
                                      !.messageUntil = now + 1500], now, in),
          "created", now)

\* maybeSpawnBoss without the test of the countdown
maybeSpawnBossNotDue(st, now, in) ==
  IF bossAlive(st) THEN st ELSE maybeSpawnBoss_create(st, now, in)

maybeSpawnBoss(st, now, in) ==
  IF bossAlive(st) THEN st
  ELSE IF now < st.nextBossAt THEN st
  ELSE maybeSpawnBoss_create(st, now, in)


(***************************************************************************)
(* Combat                                                                  *)
(***************************************************************************)
\* respawnEnemy without the restored health
respawnEnemyKeepHp(enemy, grow) ==
  IF grow
    THEN LET e2 == [enemy EXCEPT !.edges = clamp(enemy.edges + 1, 3, EDGE_CAP)]
         IN IF e2.edges # enemy.edges
              THEN LET s == computeStats(e2.edges)
                   IN [e2 EXCEPT !.atk = s.atk, !.def = s.def, !.maxHp = s.maxHp]
              ELSE e2
    ELSE enemy

\* grow: Math.random() < 0.65
respawnEnemy(enemy, grow) ==
  LET e1 == IF grow
              THEN LET e2 == [enemy EXCEPT !.edges = clamp(enemy.edges + 1, 3, EDGE_CAP)]
                   IN IF e2.edges # enemy.edges
                        THEN LET s == computeStats(e2.edges)
                             IN [e2 EXCEPT !.atk = s.atk, !.def = s.def,
                                           !.maxHp = s.maxHp]
                        ELSE e2
              ELSE enemy
  IN [e1 EXCEPT !.hp = Milli(e1.maxHp)]

\* respawnFighter without the restored health
respawnFighterKeepHp(p, isPlayer, now) ==
  LET q == recomputeFighterStats(p)
  IN [q EXCEPT !.plasmaPrimed = TRUE,
               !.lastLandedHitAt = -1000000000,
               !.stuckFrames = 0,
               !.escapeUntil = 0,
               !.invulnUntil = now + 1400]

\* a respawn that takes the wave level away
respawnFighterNoWave(p, isPlayer, now) ==
  LET q == recomputeFighterStats(p)
  IN [q EXCEPT !.hp = Milli(q.maxHp),
               !.wave = 0,
               !.plasmaPrimed = TRUE,
               !.lastLandedHitAt = -1000000000,
               !.stuckFrames = 0,
               !.escapeUntil = 0,
               !.invulnUntil = now + 1400]

\* now: performance.now().  The boss shove only moves the spawn point.
respawnFighter(p, isPlayer, now) ==
  LET q == recomputeFighterStats(p)
  IN [q EXCEPT !.hp = Milli(q.maxHp),
               !.plasmaPrimed = TRUE,
               !.lastLandedHitAt = -1000000000,
               !.stuckFrames = 0,
               !.escapeUntil = 0,
               !.invulnUntil = now + 1400]

\* One record per applyDamage call, appended to state.calls.
Call(att, def, now, fromWave, outcome) ==
  [att |-> att, def |-> def, now |-> now, fromWave |-> fromWave,
   outcome |-> outcome,      \* "throw", "cooldown", "invuln", "hit"
   dmg |-> 0, mult_x100 |-> 0,
   ko |-> FALSE,             \* defender.hp <= 0 after the hit
   branch |-> "none",        \* "boss", "pvp", "enemy", "fighter"
   kosBefore |-> 0, kosAfter |-> 0,
   attScoreBefore |-> 0, attScoreAfter |-> 0,
   defScoreBefore |-> 0, defScoreAfter |-> 0,
   defHpBefore |-> 0, defHpAfter |-> 0,
   attReadyBefore |-> 0, attReadyAfter |-> 0,   \* attacker.hitReadyAt
   attMeleeBefore |-> -1,    \* the attacker's last melee damage before the call
   attPrimedBefore |-> FALSE, attPrimedAfter |-> FALSE,   \* attacker.plasmaPrimed
   attPlasma |-> 0,          \* attacker.plasma
   defInvulnUntil |-> 0,     \* defender.invulnUntil (0 when it has none)
   orbs |-> <<>>,            \* values of the score orbs the call added
   bossBefore |-> FALSE, bossAfter |-> FALSE,
   nextBossAt |-> 0]

logCall(st, c) == [st EXCEPT !.calls = Append(@, c)]

\* The record of a call that went from st0 to st1.
Outcome(st0, st1, c, att, def) ==
  [c EXCEPT !.kosBefore = st0.kos, !.kosAfter = st1.kos,
            !.attScoreBefore = ScoreOf(Get(st0, att)),
            !.attScoreAfter = ScoreOf(Get(st1, att)),
            !.defScoreBefore = ScoreOf(Get(st0, def)),
            !.defScoreAfter = ScoreOf(Get(st1, def)),
            !.defHpBefore = Get(st0, def).hp,
            !.defHpAfter = Get(st1, def).hp,
            !.attReadyBefore = Get(st0, att).hitReadyAt,
            !.attReadyAfter = Get(st1, att).hitReadyAt,
            !.attMeleeBefore = Get(st0, att).meleeAt,
            !.attPrimedBefore = Primed(Get(st0, att)),
            !.attPrimedAfter = Primed(Get(st1, att)),
            !.attPlasma = PlasmaOf(Get(st0, att)),
            !.defInvulnUntil = IF "invulnUntil" \in DOMAIN Get(st0, def)
                                 THEN Get(st0, def).invulnUntil ELSE 0,
            !.orbs = [i \in 1..(Len(st1.partsOnField) - Len(st0.partsOnField))
                        |-> st1.partsOnField[Len(st0.partsOnField) + i].value],
            !.bossBefore = bossAlive(st0), !.bossAfter = bossAlive(st1),
            !.nextBossAt = st1.nextBossAt]

\* if (defender.hp <= 0) { ... } of applyDamage: the state after the
\* dispatch, and the branch taken
onDeath(st, att, def, now, in) ==
  IF def = BOSS THEN
    LET a == Get(st, att)
        st1 == Put(st, att, [a EXCEPT !.score = @ + SCORE_PER_BOSS_KO])
        st2 == [st1 EXCEPT !.message = "BOSS DEFEATED!",
                           !.messageUntil = now + 1400,
                           !.boss = NoBoss]
    IN [st |-> logBoss(st, scheduleNextBoss(st2, now, in), "defeated", now),
        branch |-> "boss"]
  ELSE IF isFighter(def) /\ isFighter(att) /\ att # def THEN
    LET d == Get(st, def)
        dropped == FloorScoreDrop(d.score)
        st1 == Put(st, def, [d EXCEPT !.score = Max(0, d.score - dropped)])
        st2 == IF dropped > 0 THEN spawnScoreOrbs(st1, dropped, now) ELSE st1
        a == Get(st2, att)
        st3 == Put(st2, att, [a EXCEPT !.score = @ + SCORE_PER_ENEMY_KO])
    IN [st |-> Put(st3, def, respawnFighter(Get(st3, def), def = PLAYER, now)),
        branch |-> "pvp"]
  ELSE IF def # PLAYER /\ def # BOT THEN
    LET a == Get(st, att)
        st1 == Put([st EXCEPT !.kos = @ + 1], att,
                   [a EXCEPT !.score = @ + SCORE_PER_ENEMY_KO])
    IN [st |-> Put(st1, def, respawnEnemy(Get(st1, def), in.grow)),
        branch |-> "enemy"]
  ELSE
    [st |-> Put(st, def, respawnFighter(Get(st, def), def = PLAYER, now)),
     branch |-> "fighter"]

\* The stages of applyDamage below are separate operators so that each
\* intermediate state is computed once; st0 is the state at the call.

\* the call's record once the damage is dealt (st4) and the on-death dispatch
\* has run (dead: its result, or st4 with branch "none")
applyDamage_log(st0, dead, ko, dmg, mult, att, def, now, fromWave) ==
  logCall(dead.st,
          Outcome(st0, dead.st,
                  [Call(att, def, now, fromWave, "hit") EXCEPT
                     !.dmg = dmg, !.mult_x100 = mult, !.ko = ko,
                     !.branch = dead.branch],
                  att, def))

\* if (defender.hp <= 0) { ... }
applyDamage_ko(st0, st4, dmg, mult, att, def, now, fromWave, in) ==
  IF Get(st4, def).hp <= 0
    THEN applyDamage_log(st0, onDeath(st4, att, def, now, in), TRUE,
                         dmg, mult, att, def, now, fromWave)
    ELSE applyDamage_log(st0, [st |-> st4, branch |-> "none"], FALSE,
                         dmg, mult, att, def, now, fromWave)

\* defender.hp = Math.max(0, defender.hp - dmg); lastLandedHitAt for the
\* player; a melee hit is noted in the attacker's meleeAt
applyDamage_deal(st0, st2, dmg, mult, att, def, now, fromWave, in) ==
  applyDamage_ko(
    st0,
    LET d0 == Get(st2, def)
        st3 == Put(st2, def, [d0 EXCEPT !.hp = Max(0, d0.hp - Milli(dmg))])
        a3 == Get(st3, att)
        a4 == IF fromWave THEN a3 ELSE [a3 EXCEPT !.meleeAt = now]
    IN Put(st3, att, IF att = PLAYER THEN [a4 EXCEPT !.lastLandedHitAt = now] ELSE a4),
    dmg, mult, att, def, now, fromWave, in)

\* base = attacker.atk - defender.def * 0.58 (in hundredths);
\* dmg = Math.max(2, Math.round((base + jitter) * mult))
applyDamage_dmg(st0, st2, mult, att, def, now, fromWave, in) ==
  applyDamage_deal(
    st0, st2,
    Max(2, RoundDiv((Get(st2, att).atk * 100 - Get(st2, def).def * 58
                     + 100 * in.jit) * mult, 10000)),
    mult, att, def, now, fromWave, in)

\* the plasma first-hit multiplier, consumed by the hit
applyDamage_primed(st0, st1, primed, att, def, now, extraMult_x100, fromWave, in) ==
  applyDamage_dmg(
    st0,
    IF primed THEN Put(st1, att, [Get(st1, att) EXCEPT !.plasmaPrimed = FALSE])
    ELSE st1,
    IF primed THEN extraMult_x100 * PLASMA_FIRST_HIT_MULT ELSE extraMult_x100,
    att, def, now, fromWave, in)

\* st1: the state once the attacker's cooldown is set
applyDamage_ready(st0, st1, att, def, now, extraMult_x100, fromWave, in) ==
  IF Invulnerable(Get(st1, def), now)
    THEN logCall(st1, Outcome(st0, st1, Call(att, def, now, fromWave, "invuln"),
                              att, def))
    ELSE applyDamage_primed(st0, st1, Primed(Get(st1, att)), att, def, now,
                            extraMult_x100, fromWave, in)

\* applyDamage without the test of the attacker's cooldown
applyDamageNoGate(st, att, def, now, extraMult_x100, fromWave, in) ==
  IF st.threw THEN st
  ELSE IF att = NULL
    THEN logCall([st EXCEPT !.threw = TRUE], Call(att, def, now, fromWave, "throw"))
  ELSE
    applyDamage_ready(
      st, Put(st, att, [Get(st, att) EXCEPT !.hitReadyAt = now + HIT_COOLDOWN_MS]),
      att, def, now, extraMult_x100, fromWave, in)

\* extraMult_x100: extraMult in hundredths (100 for a melee hit)
applyDamage(st, att, def, now, extraMult_x100, fromWave, in) ==
  IF st.threw THEN st
  ELSE IF att = NULL
    \* attacker.hitReadyAt on null: TypeError
    THEN logCall([st EXCEPT !.threw = TRUE], Call(att, def, now, fromWave, "throw"))
  ELSE IF Get(st, att).hitReadyAt > now /\ ~fromWave
    THEN logCall(st, Outcome(st, st, Call(att, def, now, fromWave, "cooldown"), att, def))
  ELSE
    applyDamage_ready(
      st, Put(st, att, [Get(st, att) EXCEPT !.hitReadyAt = now + HIT_COOLDOWN_MS]),
      att, def, now, extraMult_x100, fromWave, in)

(***************************************************************************)
(* updateProjectiles                                                       *)
(***************************************************************************)
\* const targets = [...state.enemies]; boss; botPlayer; player
targets(st) ==
  [i \in 1..NumEnemies |-> ENEMY(i)]
    \o (IF bossAlive(st) THEN <<BOSS>> ELSE <<>>)
    \o <<BOT, PLAYER>>

\* the first target the projectile i hits, or NULL
RECURSIVE firstHit(_, _, _, _, _)
firstHit(st, in, i, ts, k) ==
  IF k > Len(ts) THEN NULL
  ELSE LET t == ts[k]
       IN IF Get(st, t).hp <= 0 \/ t = st.projectiles[i].owner
            THEN firstHit(st, in, i, ts, k + 1)
          ELSE IF hits(in, i, t) THEN t
          ELSE firstHit(st, in, i, ts, k + 1)

RECURSIVE projectileLoop(_, _, _, _, _)

\* the simulation state apart from the projectiles
Rest(st) == [f \in DOMAIN Sim(st) \ {"projectiles"} |-> st[f]]

\* One record per projectile that updateProjectiles processed, appended to
\* state.shots: the projectile (its age after this tick's aging), the target
\* it hit or NULL, the number of applyDamage calls made for it, whether
\* anything but the projectiles changed, and whether it was removed (st1: the
\* state with the projectile aged, st2: after its hit, st3: after the splice).
logShot(st1, st2, st3, pr, t, i) ==
  [st3 EXCEPT !.shots =
     Append(@, [owner |-> pr.owner, born |-> pr.born, age |-> pr.age,
                target |-> t,
                calls |-> Len(st2.calls) - Len(st1.calls),
                touched |-> Rest(st2) # Rest(st1),
                removed |-> st3.projectiles = splice(st1.projectiles, i),
                kept |-> st3.projectiles = st1.projectiles])]

\* if (pr.age >= pr.life || hit) state.projectiles.splice(i, 1), with the
\* test on the age left out
projectileLoop_doneHitOnly(st1, st2, pr, t, dt, now, in, i) ==
  projectileLoop(logShot(st1, st2,
                         IF t # NULL
                           THEN [st2 EXCEPT !.projectiles = splice(@, i)]
                           ELSE st2,
                         pr, t, i),
                 dt, now, in, i - 1)

\* st2: the state after the projectile's hit, if any; the projectile is
\* removed when it hit or when pr.age >= pr.life (life = WAVE_RANGE /
\* WAVE_SPEED seconds)
projectileLoop_done(st1, st2, pr, t, dt, now, in, i) ==
  projectileLoop(logShot(st1, st2,
                         IF pr.age * WAVE_SPEED >= WAVE_RANGE * 1000 \/ t # NULL
                           THEN [st2 EXCEPT !.projectiles = splice(@, i)]
                           ELSE st2,
                         pr, t, i),
                 dt, now, in, i - 1)

\* st1: the state with the projectile i aged; t: the target it hits, or NULL
projectileLoop_hit(st1, pr, t, dt, now, in, i) ==
  projectileLoop_done(
    st1,
    IF t # NULL
      THEN applyDamage(
             Put(st1, pr.owner, [Get(st1, pr.owner) EXCEPT !.hitReadyAt = Min(@, now)]),
             pr.owner, t, now,
             (pr.damageMult_x100 * (100 + pr.waveLevel * 5)) \div 100, TRUE, in)
      ELSE st1,
    pr, t, dt, now, in, i)

projectileLoop_age(st1, dt, now, in, i) ==
  projectileLoop_hit(st1, st1.projectiles[i], firstHit(st1, in, i, targets(st1), 1),
                     dt, now, in, i)

\* for (let i = projectiles.length - 1; i >= 0; i--), i 1-based
projectileLoop(st, dt, now, in, i) ==
  IF i < 1 \/ st.threw THEN st
  ELSE projectileLoop_age([st EXCEPT !.projectiles[i].age = @ + dt], dt, now, in, i)

updateProjectiles(st, dt, now, in) ==
  projectileLoop(st, dt, now, in, Len(st.projectiles))


(***************************************************************************)
(* Per-entity updates                                                      *)
(***************************************************************************)
\* state.boss at the time of the call: the boss, or null once it is cleared
bossRef(st) == IF bossAlive(st) THEN BOSS ELSE NULL

\* applyDamage(a, b, now); applyDamage(b', a, now), where b' is read after the
\* first call
exchangeBack(st1, a, b, now, in) ==
  applyDamage(st1, IF b = BOSS THEN bossRef(st1) ELSE b, a, now, 100, FALSE, in)

exchange(st, a, b, now, in) ==
  exchangeBack(applyDamage(st, a, b, now, 100, FALSE, in), a, b, now, in)

RECURSIVE enemyCombat(_, _, _, _, _)
\* for (const e of state.enemies) if (in range) { exchange }
enemyCombat(st, who, now, in, i) ==
  IF i > NumEnemies THEN st
  ELSE enemyCombat(IF near(in, who, ENEMY(i)) /\ ~st.threw
                     THEN exchange(st, who, ENEMY(i), now, in)
                     ELSE st,
                   who, now, in, i + 1)

\* if (dist2(who, other) <= HIT_RANGE^2) { exchange }
combat_pvp(st2, who, other, now, in) ==
  IF ~st2.threw /\ near(in, who, other)
    THEN exchange(st2, who, other, now, in)
    ELSE st2

\* if (state.boss && dist2(who, state.boss) <= (HIT_RANGE + 14)^2) { exchange }
combat_boss(st1, who, other, now, in) ==
  combat_pvp(IF ~st1.threw /\ bossAlive(st1) /\ near(in, who, BOSS)
               THEN exchange(st1, who, BOSS, now, in)
               ELSE st1,
             who, other, now, in)

\* the combat block of updatePlayer and of updateBotPlayer (other: the other fighter)
combat(st, who, other, now, in) ==
  combat_boss(enemyCombat(st, who, now, in, 1), who, other, now, in)

\* ks: the keys held
updatePlayer(st, dt, now, in, ks) ==
  IF st.threw THEN st
  ELSE
    LET p1 == IF " " \in ks THEN tryDash(st.player, now) ELSE st.player
        p2 == regenTick(p1, dt)
        st1 == pickupLoop([st EXCEPT !.player = p2], PLAYER, in, Len(st.partsOnField))
    IN combat(st1, PLAYER, BOT, now, in)

\* The behaviour updateBotPlayer selects: "escape" (the velocity is the
\* stored escape direction), "kite" (steerTo a point 240 away from the boss)
\* or "seek" (steerTo the nearest part that is no score orb, else to a point
\* near the player).
botModeBossFirst(st, now, in) ==
  IF bossAlive(st) /\ in.bossNear THEN "kite"
  ELSE IF now < st.botPlayer.escapeUntil THEN "escape"
  ELSE "seek"

botMode(st, now, in) ==
  IF now < st.botPlayer.escapeUntil THEN "escape"
  ELSE IF bossAlive(st) /\ in.bossNear THEN "kite"
  ELSE "seek"

\* what the bot steers to: "none", "away", "part" or "player"
botTarget(st, mode) ==
  IF mode = "escape" THEN "none"
  ELSE IF mode = "kite" THEN "away"
  ELSE IF \E i \in 1..Len(st.partsOnField) : st.partsOnField[i].kind # "score"
    THEN "part"
  ELSE "player"

\* The record of one updateBotPlayer: what it found (a boss, the boss
\* within preferRange, a part that is no score orb, a successful wave roll),
\* the behaviour selected, the bot's wave level, whether tryWave was called,
\* and stuckFrames and escapeUntil before and after the stuck detection.
NoBotRec ==
  [ran |-> FALSE, boss |-> FALSE, near |-> FALSE, loose |-> FALSE, roll |-> FALSE,
   mode |-> "none", target |-> "none", wave |-> 0, called |-> FALSE,
   stuckBefore |-> 0, stuckAfter |-> 0, escBefore |-> 0, escAfter |-> 0]

\* the stuck counter with the reset of the unoptimized variant
stuckCountReset(n, stuck) == IF stuck THEN n + 1 ELSE 0

\* if (trying && moved < BOT_STUCK_DIST_EPS) b.stuckFrames++;
\* else b.stuckFrames = Math.max(0, b.stuckFrames - 1);
stuckCount(n, stuck) == IF stuck THEN n + 1 ELSE Max(0, n - 1)

\* the bot after the stuck detection; n: the counter after stuckCount
stuckDetect(b, n, now, in) ==
  IF n >= BOT_STUCK_FRAMES
    THEN [b EXCEPT !.stuckFrames = 0,
                   !.escapeUntil = now + BOT_ESCAPE_MS + in.escapeMs]
    ELSE [b EXCEPT !.stuckFrames = n]

\* st0: the state at the call; st1: the state after the bot's steering and
\* wave decision; b3: the bot after the stuck detection
updateBotPlayer_rest(st0, st1, b3, dt, now, in) ==
  combat(pickupLoop([st1 EXCEPT !.botPlayer = regenTick(b3, dt),
                                !.botRec =
                                  [ran |-> TRUE,
                                   boss |-> bossAlive(st0),
                                   near |-> in.bossNear,
                                   loose |-> \E i \in 1..Len(st0.partsOnField) :
                                               st0.partsOnField[i].kind # "score",
                                   roll |-> botRollsWave(in),
                                   mode |-> botMode(st0, now, in),
                                   target |-> botTarget(st0, botMode(st0, now, in)),
                                   wave |-> st0.botPlayer.wave,
                                   called |-> Len(st1.waveLog) > Len(st0.waveLog),
                                   stuckBefore |-> st0.botPlayer.stuckFrames,
                                   stuckAfter |-> b3.stuckFrames,
                                   escBefore |-> st0.botPlayer.escapeUntil,
                                   escAfter |-> b3.escapeUntil]],
                       BOT, in, Len(st1.partsOnField)),
         BOT, PLAYER, now, in)

updateBotPlayer_move(st0, st1, dt, now, in) ==
  updateBotPlayer_rest(st0, st1,
                       stuckDetect(st1.botPlayer,
                                   stuckCount(st1.botPlayer.stuckFrames, botStuck(in)),
                                   now, in),
                       dt, now, in)

updateBotPlayer(st, dt, now, in) ==
  IF st.threw THEN st
  ELSE
    \* escape mode: no steering, no wave; otherwise kite or seek, with a
    \* wave cast when the roll succeeds
    updateBotPlayer_move(
      st,
      IF botMode(st, now, in) = "escape" THEN st
      ELSE IF st.botPlayer.wave > 0 /\ botRollsWave(in) THEN tryWave(st, BOT, now)
      ELSE st,
      dt, now, in)

RECURSIVE enemyPickups(_, _, _, _)
\* the pickup loop of updateEnemyAI, i 1-based
enemyPickups(st, e, in, i) ==
  IF i < 1 THEN st
  ELSE
    LET part == st.partsOnField[i]
    IN IF part.kind # "score" /\ overlaps(in, ENEMY(e), i)
         THEN
           LET st1 == [st EXCEPT !.partsOnField = splice(@, i)]
               en == st1.enemies[e]
               grown == [en EXCEPT !.edges = clamp(en.edges + 1, 3, EDGE_CAP)]
               s == computeStats(grown.edges)
               en1 == IF part.kind = "edge"
                        THEN IF in.eat
                               THEN IF grown.edges # en.edges
                                      THEN [grown EXCEPT !.atk = s.atk, !.def = s.def,
                                                         !.maxHp = s.maxHp]
                                      ELSE grown
                               ELSE en
                        ELSE [en EXCEPT !.hp =
                                clamp(en.hp + Milli(RoundDiv(en.maxHp * 14, 100)),
                                      0, Milli(en.maxHp))]
           IN enemyPickups([st1 EXCEPT !.enemies[e] = en1], e, in, i - 1)
         ELSE enemyPickups(st, e, in, i - 1)

updateEnemyAI(st, e, dt, now, in) ==
  IF st.threw THEN st ELSE enemyPickups(st, e, in, Len(st.partsOnField))

\* moves the boss only
updateBoss(st, dt) == st

\* The record of one drawParts: the field and the two fighters' scores
\* before and after it.
NoDrawRec ==
  [ran |-> FALSE, before |-> <<>>, after |-> <<>>, scoresBefore |-> <<0, 0>>,
   scoresAfter |-> <<0, 0>>]

logDraw(st0, st1) ==
  [st1 EXCEPT !.drawRec =
     [ran |-> TRUE, before |-> st0.partsOnField, after |-> st1.partsOnField,
      scoresBefore |-> <<st0.player.score, st0.botPlayer.score>>,
      scoresAfter |-> <<st1.player.score, st1.botPlayer.score>>]]

\* drawParts dropping parts of every kind by their age
drawPartsAnyKind(st, now) ==
  logDraw(st, [st EXCEPT !.partsOnField =
                 SelectSeq(@, LAMBDA p : ~(now - p.born > SCORE_ORB_LIFETIME_MS))])

\* the state change of render(): drawParts drops the score orbs older than
\* SCORE_ORB_LIFETIME_MS
drawParts(st, now) ==
  logDraw(st, [st EXCEPT !.partsOnField =
                 SelectSeq(@, LAMBDA p : ~(p.kind = "score"
                                           /\ now - p.born > SCORE_ORB_LIFETIME_MS))])

(***************************************************************************)
(* Main loop                                                               *)
(***************************************************************************)
\* records that the tick reached a step
Mark(st, name) == IF st.threw THEN st ELSE [st EXCEPT !.steps = Append(@, name)]

RECURSIVE enemiesLoop(_, _, _, _, _)
\* for (const e of state.enemies) updateEnemyAI(e, dt, now)
enemiesLoop(st, dt, now, in, i) ==
  IF i > NumEnemies THEN st
  ELSE enemiesLoop(updateEnemyAI(Mark(st, "enemy"), i, dt, now, in), dt, now, in, i + 1)

\* if (now > state.nextPartAt) { ... }
partSpawnCheck(st, now, in) ==
  IF now > st.nextPartAt
    THEN LET st1 == [st EXCEPT !.nextPartAt = now + PART_SPAWN_INTERVAL_MS]
         IN IF Len(st1.partsOnField) < PART_MAX_ON_FIELD
              THEN spawnPart(st1, in.kind, now)
              ELSE st1
    ELSE st

\* The record of one tick callback: its timestamp, lastT at its start, dtMs,
\* whether it ran (it returns at once when paused), the distance tests that
\* succeeded, the steps it reached, its applyDamage calls, the projectiles
\* it processed, and whether it ended by an exception.
TickRec(now, lastTBefore, dt, ran, st, in) ==
  [now |-> now, lastTBefore |-> lastTBefore, dt |-> dt, ran |-> ran,
   ev |-> in.ev, threw |-> st.threw, steps |-> st.steps, calls |-> st.calls,
   shots |-> st.shots, bot |-> st.botRec, draw |-> st.drawRec]

\* the state with the tick's history taken out
Cleared(st) ==
  [st EXCEPT !.calls = <<>>, !.shots = <<>>, !.steps = <<>>, !.threw = FALSE,
             !.botRec = NoBotRec, !.drawRec = NoDrawRec]

\* the same with lastT left as it was
tick_endKeepLastT(s8, lt, dt, now, in) ==
  [state |-> Cleared(s8), lastT |-> lt, raf |-> IF s8.threw THEN 0 ELSE 1,
   rec |-> TickRec(now, lt, dt, TRUE, s8, in)]

\* what a tick that ran hands back: s8 is the state after render, or the
\* state at the exception; requestAnimationFrame(tick) is its last statement
tick_end(s8, lt, dt, now, in) ==
  [state |-> Cleared(s8), lastT |-> now, raf |-> IF s8.threw THEN 0 ELSE 1,
   rec |-> TickRec(now, lt, dt, TRUE, s8, in)]

\* updateHUD(); render(now, dt, dtMs)
tick_render(s7, now) ==
  IF s7.threw THEN s7 ELSE drawParts(Mark(s7, "render"), now)

\* the body of tick with the two fighters' updates swapped
tick_bodyBotFirst(st, dt, ks, now, in) ==
  LET s1 == partSpawnCheck(Mark(st, "parts"), now, in)
      s2 == maybeSpawnBoss(Mark(s1, "bossSpawn"), now, in)
      s3 == updateBotPlayer(Mark(s2, "bot"), dt, now, in)
      s4 == updatePlayer(Mark(s3, "player"), dt, now, in, ks)
      s5 == enemiesLoop(s4, dt, now, in, 1)
      s6 == updateBoss(Mark(s5, "boss"), dt)
  IN updateProjectiles(Mark(s6, "projectiles"), dt, now, in)

\* the body of tick from the part spawn check to updateProjectiles
tick_body(st, dt, ks, now, in) ==
  LET s1 == partSpawnCheck(Mark(st, "parts"), now, in)
      s2 == maybeSpawnBoss(Mark(s1, "bossSpawn"), now, in)
      s3 == updatePlayer(Mark(s2, "player"), dt, now, in, ks)
      s4 == updateBotPlayer(Mark(s3, "bot"), dt, now, in)
      s5 == enemiesLoop(s4, dt, now, in, 1)
      s6 == updateBoss(Mark(s5, "boss"), dt)
  IN updateProjectiles(Mark(s6, "projectiles"), dt, now, in)

\* tick(now) with the module variables paused, lastT and keys as p, lt and ks:
\* the new state and lastT, the number of requestAnimationFrame calls, and the
\* record of the tick
tick(st, p, lt, ks, now, in) ==
  IF p THEN [state |-> st, lastT |-> lt, raf |-> 0,
             rec |-> TickRec(now, lt, 0, FALSE, st, in)]
  ELSE tick_end(tick_render(tick_body(st, Min(MAX_DT_MS, now - lt), ks, now, in), now),
                lt, Min(MAX_DT_MS, now - lt), now, in)


(***************************************************************************)
(* Geometry.  Coordinates, radii and widths are integers; a projectile's   *)
(* unit direction (dx, dy) is given in fifths (dx5, dy5), with dx5^2 +     *)
(* dy5^2 = 25, and its len is a multiple of 5, so that the segment's end   *)
(* is an integer point.  Quotients are kept exact by comparing cross       *)
(* multiples.                                                              *)
(***************************************************************************)
\* const dist2 = (ax, ay, bx, by) => { dx = ax - bx; dy = ay - by; dx*dx + dy*dy }
dist2(ax, ay, bx, by) == (ax - bx) * (ax - bx) + (ay - by) * (ay - by)

\* the segment's direction times its length: (ex - px, ey - py)
segV(proj) == [x |-> (proj.dx5 * proj.len) \div 5, y |-> (proj.dy5 * proj.len) \div 5]

\* rectHitProjectile without the clamp to the segment's end
rectHitProjectileNoEnd(proj, target) ==
  LET v == segV(proj)
      wx == target.x - proj.x
      wy == target.y - proj.y
      c1 == v.x * wx + v.y * wy
      c2 == v.x * v.x + v.y * v.y
      r2_x4 == (2 * target.r + proj.w) * (2 * target.r + proj.w)
  IN IF c1 <= 0 THEN 4 * dist2(target.x, target.y, proj.x, proj.y) <= r2_x4
     ELSE 4 * dist2(c2 * wx, c2 * wy, c1 * v.x, c1 * v.y) <= r2_x4 * c2 * c2

\* r2 = (target.r + proj.w / 2) ** 2 is compared as 4 * r2; in the last case
\* b = c1 / c2 and the point (bx, by) = p + b * v, so that
\* dist2(t, b) <= r2 is dist2(c2 * (t - p), c1 * v) <= r2 * c2^2
rectHitProjectile(proj, target) ==
  LET v == segV(proj)
      wx == target.x - proj.x
      wy == target.y - proj.y
      c1 == v.x * wx + v.y * wy
      c2 == v.x * v.x + v.y * v.y
      r2_x4 == (2 * target.r + proj.w) * (2 * target.r + proj.w)
  IN IF c1 <= 0 THEN 4 * dist2(target.x, target.y, proj.x, proj.y) <= r2_x4
     ELSE IF c2 <= c1
       THEN 4 * dist2(target.x, target.y, proj.x + v.x, proj.y + v.y) <= r2_x4
     ELSE 4 * dist2(c2 * wx, c2 * wy, c1 * v.x, c1 * v.y) <= r2_x4 * c2 * c2

\* Math.sqrt(n) for a perfect square n
Sqrt(n) == CHOOSE k \in 0..n : k * k = n

\* the closest point of the rectangle to (x, y)
closest(x, y, rect) ==
  [x |-> clamp(x, rect.x, rect.x + rect.w), y |-> clamp(y, rect.y, rect.y + rect.h)]

\* the value of ent after resolveCircleRect(ent, rect), for an ent whose d2
\* is a perfect square and whose push is a whole number of units.  With
\* d2 = 0 the code takes d = Math.sqrt(1e-6) and adds (0 / d) * push = 0 to
\* both coordinates.
resolveCircleRect(ent, rect) ==
  LET c == closest(ent.x, ent.y, rect)
      dx == ent.x - c.x
      dy == ent.y - c.y
      d2 == dx * dx + dy * dy
      r == ent.r + 2
  IN IF d2 >= r * r THEN ent
     ELSE IF d2 = 0 THEN ent
     ELSE [ent EXCEPT !.x = @ + (dx * (r - Sqrt(d2))) \div Sqrt(d2),
                      !.y = @ + (dy * (r - Sqrt(d2))) \div Sqrt(d2)]

\* a move with no clamp into the world
resolveWorldBoundsNone(ent) == ent

\* resolveWorldBounds(ent)
resolveWorldBounds(ent) ==
  [ent EXCEPT !.x = clamp(@, ent.r + 6, WORLD_W - ent.r - 6),
              !.y = clamp(@, ent.r + 6, WORLD_H - ent.r - 6)]

RECURSIVE resolveObstacles(_, _, _)
\* for (const o of state.obstacles) resolveCircleRect(ent, o), from the k-th on
resolveObstacles(ent, obs, k) ==
  IF k > Len(obs) THEN ent
  ELSE resolveObstacles(resolveCircleRect(ent, obs[k]), obs, k + 1)

\* moveEntity(ent, dt, speed); mx, my: ent.vx * speed * dt and ent.vy * speed * dt
moveEntity(ent, mx, my, obs) ==
  resolveObstacles(resolveWorldBounds([ent EXCEPT !.x = @ + mx, !.y = @ + my]), obs, 1)

\* Math.hypot(dx, dy) when it is a whole number
hypot(dx, dy) == Sqrt(dx * dx + dy * dy)

\* The position respawnFighter(p, isPlayer) leaves p at: the home point,
\* shoved away from the boss when one exists less than 420 px from it.
\* r: p.r; hasBoss: state.boss is not null; bx, by: the boss's position
respawnPosition(r, isPlayer, hasBoss, bx, by) ==
  LET px == WORLD_W \div 2 + (IF isPlayer THEN 0 ELSE 220)
      py == (WORLD_H * 55) \div 100 + (IF isPlayer THEN 0 ELSE 160)
      dx == px - bx
      dy == py - by
      d == IF hypot(dx, dy) = 0 THEN 1 ELSE hypot(dx, dy)
  IN IF ~hasBoss \/ d >= 420 THEN [x |-> px, y |-> py, r |-> r]
     ELSE [x |-> clamp(bx + (dx * 520) \div d, r + 10, WORLD_W - r - 10),
           y |-> clamp(by + (dy * 520) \div d, r + 10, WORLD_H - r - 10),
           r |-> r]

(***************************************************************************)
(* Obstacles.  Coordinates are whole pixels; a rectangle is [x, y, w, h].  *)
(***************************************************************************)
\* makePlayer: the player is created at (WORLD_W * 0.5, WORLD_H * 0.55)
SpawnX == WORLD_W \div 2
SpawnY == (WORLD_H * 55) \div 100

\* obstacleOverlaps(a, b)
obstacleOverlaps(a, b) ==
  ~(a.x + a.w < b.x \/ a.x > b.x + b.w \/ a.y + a.h < b.y \/ a.y > b.y + b.h)

\* buildObstacles: const safe = dist2(cx, cy, WORLD_W * 0.5, WORLD_H * 0.55)
\* > 260 * 260, with cx = o.x + o.w / 2 and cy = o.y + o.h / 2; both sides
\* are multiplied by 4 to stay in the integers
safe(o) ==
  dist2(2 * o.x + o.w, 2 * o.y + o.h, 2 * SpawnX, 2 * SpawnY) > 4 * 260 * 260

\* the while condition of buildObstacles; w: the locals obs and attempts
buildGoesOn(w) == Len(w.obs) < OBSTACLE_COUNT /\ w.attempts < OBSTACLE_ATTEMPTS

\* one iteration that accepts every safe candidate, overlapping or not
attemptNoOverlapTest(w, o) ==
  IF ~safe(o) THEN [w EXCEPT !.attempts = @ + 1]
  ELSE [w EXCEPT !.attempts = @ + 1, !.obs = Append(@, o)]

\* one iteration of the while loop of buildObstacles; o: makeObstacle()
attempt(w, o) ==
  IF ~safe(o) THEN [w EXCEPT !.attempts = @ + 1]
  ELSE IF \E k \in 1..Len(w.obs) : obstacleOverlaps(o, w.obs[k])
         THEN [w EXCEPT !.attempts = @ + 1]
  ELSE [w EXCEPT !.attempts = @ + 1, !.obs = Append(@, o)]

\* Candidates makeObstacle can return.  slot(k), k < 40: the largest
\* rectangles on a lattice with gaps of 20 px, all far from the spawn point.
slot(k) == [x |-> 100 + 200 * (k % 8), y |-> 100 + 170 * (k \div 8),
            w |-> 180, h |-> 150]
\* centred on the spawn point, centred exactly 260 px from it, and 261 px
OnSpawn == [x |-> SpawnX - 50, y |-> SpawnY - 30, w |-> 100, h |-> 60]
AtRadius == [x |-> SpawnX + 210, y |-> SpawnY - 30, w |-> 100, h |-> 60]
PastRadius == [x |-> SpawnX + 211, y |-> SpawnY - 30, w |-> 100, h |-> 60]
\* sharing its left border with the right border of k
Touching(k) == [x |-> k.x + k.w, y |-> k.y, w |-> 70, h |-> 50]

\* the first n lattice rectangles: an outcome of buildObstacles
ObsSlots(n) == [k \in 1..n |-> slot(k - 1)]

(***************************************************************************)
(* Inputs the exploration draws from.                                      *)
(***************************************************************************)
\* time between two handlers: a frame at 60 Hz, or a stall longer than the
\* dt clamp and the melee cooldown
Deltas == {16, 400}

\* samples of the random draws of one handler; etype is the makeEnemy roll
Rolls ==
  { [jit |-> -2, grow |-> TRUE,  eat |-> TRUE,  kind |-> "edge", bossNear |-> TRUE,
     bossDelay |-> BOSS_MIN_SPAWN_MS, escapeMs |-> 120, etype |-> "chaser",
     obstacles |-> ObsSlots(OBSTACLE_COUNT)],
    [jit |-> 1,  grow |-> FALSE, eat |-> FALSE, kind |-> "wave", bossNear |-> FALSE,
     bossDelay |-> BOSS_MAX_SPAWN_MS - 1, escapeMs |-> 279, etype |-> "skitter",
     obstacles |-> <<>>],
    [jit |-> 0,  grow |-> TRUE,  eat |-> FALSE, kind |-> "regen", bossNear |-> TRUE,
     bossDelay |-> BOSS_MIN_SPAWN_MS + 6000, escapeMs |-> 200, etype |-> "brute",
     obstacles |-> <<slot(0), PastRadius, slot(9)>>] }

\* the distance tests that can succeed in a tick from st, and the bot's rolls
Events(st) ==
  { Ev("near", f, ENEMY(i), 0) : f \in {PLAYER, BOT}, i \in EnemyIds }
    \cup { Ev("near", f, BOSS, 0) : f \in IF bossAlive(st) THEN {PLAYER, BOT} ELSE {} }
    \cup { Ev("near", PLAYER, BOT, 0), Ev("near", BOT, PLAYER, 0) }
    \cup { Ev("pick", w, NULL, i) : w \in {PLAYER, BOT} \cup { ENEMY(e) : e \in EnemyIds },
                                   i \in 1..Len(st.partsOnField) }
    \cup { Ev("hit", t, NULL, i) : t \in { ENEMY(e) : e \in EnemyIds } \cup {BOSS, BOT, PLAYER},
                                  i \in 1..Len(st.projectiles) }
    \cup { Ev("cast", BOT, NULL, 0), Ev("stuck", BOT, NULL, 0) }

\* at most MaxEvents of them at once
EventSets(st) ==
  LET upTo[n \in 0..MaxEvents] ==
        IF n = 0 THEN {{}}
        ELSE upTo[n - 1] \cup { s \cup {e} : s \in upTo[n - 1], e \in Events(st) }
  IN upTo[MaxEvents]

Input(r, evs) == [jit |-> r.jit, grow |-> r.grow, eat |-> r.eat, kind |-> r.kind,
                  bossNear |-> r.bossNear,
                  bossDelay |-> r.bossDelay, escapeMs |-> r.escapeMs,
                  etype |-> r.etype, obstacles |-> r.obstacles, ev |-> evs]

(***************************************************************************)
(* Reset                                                                   *)
(***************************************************************************)
\* now: performance.now(); in: the rolls of makeEnemy and scheduleNextBoss
\* and the obstacles buildObstacles placed
resetGame(now, in) ==
  [obstacles |-> in.obstacles,
   partsOnField |-> <<>>,
   projectiles |-> <<>>,
   enemies |-> [i \in EnemyIds |-> makeEnemy(i, in.etype)],
   player |-> recomputeFighterStats(makePlayer),
   botPlayer |-> recomputeFighterStats(makeBotPlayer),
   kos |-> 0,
   nextPartAt |-> now + 250,
   boss |-> NoBoss,
   nextBossAt |-> now + in.bossDelay,
   message |-> "Optimized visuals",
   messageUntil |-> now + 2400,
   calls |-> <<>>, shots |-> <<>>, steps |-> <<>>, threw |-> FALSE,
   botRec |-> NoBotRec, drawRec |-> NoDrawRec,
   bossLog |-> <<[what |-> "reset", at |-> now, bossBefore |-> FALSE,
                  dueBefore |-> 0, nextBossAt |-> now + in.bossDelay]>>,
   waveLog |-> <<>>]

(***************************************************************************)
(* Scheduler history (not program state).                                  *)
(*   last        the handler that ran last                                 *)
(*   ticks       the tick callbacks of the last frame, in order            *)
(*   pausedAt    time of the pause command that began the current pause,   *)
(*               -1 when not paused by a command                           *)
(*   atPause     Sim(state) at that command                                *)
(*   resume      the last resume that ended a pause: when the pause began  *)
(*               and ended, and Sim(state) at both times                   *)
(*   resumedAt   time of the last setPaused(false), -1 if none             *)
(*   ranSince    ticks that ran since the last setPaused(false)            *)
(*   build       the locals obs and attempts of a buildObstacles call that *)
(*               is in its loop (on), and the draws it is going to get     *)
(***************************************************************************)
NoResume == [valid |-> FALSE, pausedAt |-> 0, resumedAt |-> 0,
             before |-> <<>>, after |-> <<>>]

\* no resetGame is in its buildObstacles loop
NoBuild == [on |-> FALSE, obs |-> <<>>, attempts |-> 0,
            scn |-> [good |-> 0, every |-> 1, past |-> FALSE]]

InitHist == [last |-> "init", ticks |-> <<>>, pausedAt |-> -1, atPause |-> <<>>,
             resume |-> NoResume, resumedAt |-> 0, ranSince |-> 0,
             build |-> NoBuild]

(***************************************************************************)
(* Handlers                                                                *)
(***************************************************************************)
\* setPaused(value) at time clock
setPaused(value) ==
  /\ paused' = value
  /\ IF value
       THEN /\ loopRunning' = FALSE
            /\ UNCHANGED <<lastT, pending>>
            /\ hist' = [hist EXCEPT !.last = "pause", !.pausedAt = clock,
                                    !.atPause = Sim(state)]
       ELSE /\ lastT' = clock
            /\ IF ~loopRunning
                 THEN loopRunning' = TRUE /\ pending' = pending + 1
                 ELSE UNCHANGED <<loopRunning, pending>>
            /\ hist' = [hist EXCEPT
                 !.last = "resume", !.pausedAt = -1, !.atPause = <<>>,
                 !.resumedAt = clock, !.ranSince = 0,
                 !.resume = IF paused /\ hist.pausedAt >= 0
                              THEN [valid |-> TRUE, pausedAt |-> hist.pausedAt,
                                    resumedAt |-> clock, before |-> hist.atPause,
                                    after |-> Sim(state)]
                              ELSE @]
  /\ UNCHANGED <<clock, keys, state>>

Step == steps < MaxSteps /\ steps' = steps + 1

\* keydown "p": setPaused(!paused); return
KeyDownP == Step /\ setPaused(~paused)

\* keydown "e": keys.add("e"); tryWave(state.player, performance.now())
KeyDownE ==
  /\ Step
  /\ keys' = keys \cup {"e"}
  /\ state' = tryWave(state, PLAYER, clock)
  /\ hist' = [hist EXCEPT !.last = "keydown"]
  /\ UNCHANGED <<clock, paused, lastT, loopRunning, pending>>

\* keydown " " (the dash key): keys.add(" ")
KeyDownSpace ==
  /\ Step
  /\ keys' = keys \cup {" "}
  /\ hist' = [hist EXCEPT !.last = "keydown"]
  /\ UNCHANGED <<clock, paused, lastT, loopRunning, pending, state>>

\* keyup: keys.delete(k)
KeyUp(k) ==
  /\ Step
  /\ k \in keys
  /\ keys' = keys \ {k}
  /\ hist' = [hist EXCEPT !.last = "keyup"]
  /\ UNCHANGED <<clock, paused, lastT, loopRunning, pending, state>>

\* btnPause click: setPaused(!paused)
ClickPause == Step /\ setPaused(~paused)

\* btnResume click: setPaused(false)
ClickResume == Step /\ setPaused(FALSE)

\* btnReset / btnHardReset click: resetGame()
ClickReset(r) ==
  /\ Step
  /\ state' = resetGame(clock, Input(r, {}))
  /\ paused' = FALSE
  /\ hist' = [hist EXCEPT !.last = "reset", !.pausedAt = -1, !.atPause = <<>>]
  /\ UNCHANGED <<clock, lastT, loopRunning, pending, keys>>

RECURSIVE runBatch(_, _, _, _)

\* r: what the tick handed back
runBatch_next(n, w, r, now, in) ==
  runBatch(n - 1,
           [state |-> r.state, lastT |-> r.lastT, raf |-> w.raf + r.raf,
            ticks |-> Append(w.ticks, r.rec)],
           now, in)

\* the n callbacks queued for this frame, run one after the other with the
\* frame's timestamp; w: [state, lastT, raf, ticks]
runBatch(n, w, now, in) ==
  IF n = 0 THEN w
  ELSE runBatch_next(n, w, tick(w.state, paused, w.lastT, keys, now, in), now, in)

\* w: the outcome of the batch
Frame_end(now, w) ==
  /\ clock' = now
  /\ state' = w.state
  /\ lastT' = w.lastT
  /\ pending' = w.raf
  /\ hist' = [hist EXCEPT !.last = "frame", !.ticks = w.ticks,
                          !.ranSince = @ + Cardinality({i \in 1..Len(w.ticks) :
                                                          w.ticks[i].ran})]

\* A displayed frame, d ms after the last handler: the browser runs every
\* queued tick callback.
Frame(d, r, evs) ==
  /\ Step
  /\ pending > 0
  /\ Frame_end(clock + d,
               runBatch(pending,
                        [state |-> state, lastT |-> lastT,
                         raf |-> 0, ticks |-> <<>>],
                        clock + d, Input(r, evs)))
  /\ UNCHANGED <<paused, loopRunning, keys>>

\* No callback is queued: time passes without a frame.
TimePasses(d) ==
  /\ Step
  /\ pending = 0
  /\ clock' = clock + d
  /\ hist' = [hist EXCEPT !.last = "time"]
  /\ UNCHANGED <<paused, lastT, loopRunning, pending, keys, state>>


(***************************************************************************)
(* Initial states.  Fresh is the state after construction (resetGame();    *)
(* setPaused(false)).  Late is a state of a game that has been running for *)
(* a minute: one fighter has collected parts up to the caps, the other has *)
(* collected a few and scored two KOs, a boss has spawned, and the enemy,  *)
(* the boss (when the stronger fighter is the player) and the weaker       *)
(* fighter (when low) have been worn down by earlier hits; the game is     *)
(* running, or has been paused for PauseLength.  Due is a late state with  *)
(* no boss, a boss countdown about to elapse and two waves in flight.      *)
(***************************************************************************)
\* a fighter after 98 edge parts (66 reach PLAYER_EDGE_CAP, 32 more feed
\* plasma to PLASMA_MAX) and 17 wave parts (WAVE_MAX), at full health
StrongFighter(tint) ==
  LET f == recomputeFighterStats(
             [makeFighter(tint) EXCEPT !.edges = PLAYER_EDGE_CAP, !.parts = 66,
                                       !.plasmaParts = 32, !.plasma = PLASMA_MAX,
                                       !.waveParts = 17, !.wave = WAVE_MAX,
                                       !.score = 98 * SCORE_PER_EDGE_PART
                                                 + 17 * SCORE_PER_WAVE_PART])
  IN [f EXCEPT !.hp = Milli(f.maxHp)]

\* a fighter after 2 edge parts, 1 wave part, 10 regen parts and two enemy
\* KOs (score 180), whose last melee hit landed a second ago
WeakFighter(tint, low) ==
  LET f == makeFighter(tint)
  IN [f EXCEPT !.parts = 2, !.waveParts = 1, !.regenParts = 10,
               !.score = 2 * SCORE_PER_EDGE_PART + SCORE_PER_WAVE_PART
                         + 10 * SCORE_PER_REGEN_PART + 2 * SCORE_PER_ENEMY_KO,
               !.hp = IF low THEN Milli(2) ELSE f.hp,
               !.plasmaPrimed = FALSE,
               !.hitReadyAt = 59000,
               !.meleeAt = 59000 - HIT_COOLDOWN_MS]

LateClock == 60 * 1000

LateState(strongIsPlayer, low) ==
  [obstacles |-> ObsSlots(OBSTACLE_COUNT),
   partsOnField |-> <<Part("edge", 0, LateClock - 500), Part("wave", 0, LateClock - 400)>>,
   projectiles |-> <<>>,
   enemies |-> [i \in EnemyIds |-> [makeEnemy(i, "brute") EXCEPT !.hp = Milli(2)]],
   player |-> IF strongIsPlayer THEN StrongFighter("player") ELSE WeakFighter("player", low),
   botPlayer |-> IF strongIsPlayer THEN WeakFighter("bot", low) ELSE StrongFighter("bot"),
   kos |-> 2,
   nextPartAt |-> LateClock + 100,
   boss |-> IF strongIsPlayer THEN [makeBoss EXCEPT !.hp = Milli(2)] ELSE makeBoss,
   nextBossAt |-> LateClock - 10000 + BOSS_MIN_SPAWN_MS,
   message |-> "A BOSS has appeared!",
   messageUntil |-> LateClock - 8500,
   calls |-> <<>>, shots |-> <<>>, steps |-> <<>>, threw |-> FALSE,
   botRec |-> NoBotRec, drawRec |-> NoDrawRec,
   bossLog |-> <<[what |-> "created", at |-> LateClock - 10000, bossBefore |-> FALSE,
                  dueBefore |-> LateClock - 10010,
                  nextBossAt |-> LateClock - 10000 + BOSS_MIN_SPAWN_MS]>>,
   waveLog |-> <<>>]

\* The same game at a moment when the last boss was defeated a while ago and
\* the countdown to the next one elapses in 10 ms, and two waves of the
\* stronger fighter are in flight: one cast long ago that slow frames have
\* aged to 520 ms, and one cast 600 ms ago, aged 66 ms by the two frames since.
\* The bot has failed to move for 9 ticks, the edge part has lain on the field
\* for 20 s, and a score orb dropped by an elimination turns
\* SCORE_ORB_LIFETIME_MS old in 16 ms.
DueState(strongIsPlayer, low) ==
  LET s == IF strongIsPlayer THEN PLAYER ELSE BOT
      st == LateState(strongIsPlayer, low)
      caster == [Get(st, s) EXCEPT !.waveReadyAt = LateClock - 600 + WAVE_COOLDOWN_MS,
                                   !.castAt = LateClock - 600]
  IN [Put(st, s, caster) EXCEPT
        !.botPlayer.stuckFrames = BOT_STUCK_FRAMES - 1,
        !.partsOnField = <<Part("edge", 0, LateClock - 20000),
                           Part("wave", 0, LateClock - 400),
                           Part("score", 30, LateClock + 16 - SCORE_ORB_LIFETIME_MS)>>,
        !.projectiles = <<[Projectile(s, WAVE_MAX, LateClock - 8000) EXCEPT !.age = 520],
                          [Projectile(s, WAVE_MAX, LateClock - 600) EXCEPT !.age = 66]>>,
        !.boss = NoBoss,
        !.nextBossAt = LateClock + 10,
        !.message = "BOSS DEFEATED!",
        !.messageUntil = LateClock + 10 - BOSS_MIN_SPAWN_MS + 1400,
        !.bossLog = <<[what |-> "defeated", at |-> LateClock + 10 - BOSS_MIN_SPAWN_MS,
                       bossBefore |-> TRUE, dueBefore |-> LateClock,
                       nextBossAt |-> LateClock + 10]>>]

\* the loop is running and its next callback is queued; the last tick ran at t
Running(t, st, ran) ==
  /\ clock = t
  /\ paused = FALSE
  /\ lastT = t
  /\ loopRunning = TRUE
  /\ pending = 1
  /\ keys = {}
  /\ state = st
  /\ hist = [InitHist EXCEPT !.ranSince = ran]
  /\ steps = 0

PauseLength == 5000

\* paused by a command at time t, PauseLength ms ago; the callback that was
\* queued then has run and returned without queueing another
Paused(t, st, ran) ==
  /\ clock = t + PauseLength
  /\ paused = TRUE
  /\ lastT = t
  /\ loopRunning = FALSE
  /\ pending = 0
  /\ keys = {}
  /\ state = st
  /\ hist = [InitHist EXCEPT !.last = "time", !.ranSince = ran,
                             !.pausedAt = t, !.atPause = Sim(st)]
  /\ steps = 0

Init ==
  \/ \E r \in Rolls : Running(0, resetGame(0, Input(r, {})), 0)
  \/ \E sp \in BOOLEAN, low \in BOOLEAN :
       \/ Running(LateClock, LateState(sp, low), 1)
       \/ Paused(LateClock, LateState(sp, low), 1)
       \/ low /\ Running(LateClock, DueState(sp, low), 1)

Next ==
  \/ KeyDownP
  \/ KeyDownE
  \/ KeyDownSpace
  \/ \E k \in {"e", " "} : KeyUp(k)
  \/ ClickPause
  \/ ClickResume
  \/ \E r \in Rolls : ClickReset(r)
  \/ \E d \in Deltas, r \in Rolls, evs \in EventSets(state) : Frame(d, r, evs)
  \/ \E d \in Deltas : TimePasses(d)

Spec == Init /\ [][Next]_vars

(***************************************************************************)
(* The loop left to itself: from a due state with two waves in flight the  *)
(* browser keeps displaying frames, LiveDelta ms apart, for LiveHorizon ms *)
(* (longer than a wave lives); no key is pressed and no button clicked,    *)
(* and the only distance tests that succeed are capsule tests of the       *)
(* waves.  requestAnimationFrame runs a queued callback at the next frame, *)
(* which is the fairness assumed.                                          *)
(***************************************************************************)
LiveDelta == 33
LiveHorizon == 480

\* the sets of capsule tests that can succeed in a tick from st
ShotEventSets(st) == { s \in EventSets(st) : \A e \in s : e.t = "hit" }

LiveInit == \E sp \in BOOLEAN : Running(LateClock, DueState(sp, TRUE), 1)

LiveFrame(r, evs) ==
  /\ clock < LateClock + LiveHorizon
  /\ pending > 0
  /\ Frame_end(clock + LiveDelta,
               runBatch(pending,
                        [state |-> state, lastT |-> lastT,
                         raf |-> 0, ticks |-> <<>>],
                        clock + LiveDelta, Input(r, evs)))
  /\ UNCHANGED <<paused, loopRunning, keys, steps>>

LiveNext == \E r \in Rolls, evs \in ShotEventSets(state) : LiveFrame(r, evs)

\* The clock advances by a frame.  In LiveSpec the steps that change the
\* clock are the LiveFrame steps, and LiveFrame is enabled whenever LiveTick
\* is, so weak fairness of LiveTick with respect to the clock is weak
\* fairness of the frames.
LiveTick ==
  /\ clock < LateClock + LiveHorizon
  /\ pending > 0
  /\ clock' = clock + LiveDelta

LiveSpec == LiveInit /\ [][LiveNext]_vars /\ WF_clock(LiveTick)


(***************************************************************************)
(* FnSpec: single functions applied to drawn inputs.  The fighter probes   *)
(* apply respawnFighter and pickupPart to state.player; the geometry       *)
(* probes apply rectHitProjectile and resolveCircleRect to drawn shapes.   *)
(* hist holds the last call: its name, its arguments and its result.       *)
(***************************************************************************)
FnSteps == 3

\* a fighter with the given edges, k edge parts towards the next edge and
\* the given plasma level
GrownFighter(edges, k, plasma) ==
  recomputeFighterStats(
    [makePlayer EXCEPT !.edges = edges,
                       !.parts = PARTS_PER_EDGE * (edges - 4) + k,
                       !.plasma = plasma,
                       !.plasmaParts = PARTS_PER_PLASMA * plasma,
                       !.wave = IF edges > 4 THEN WAVE_MAX ELSE 0,
                       !.waveParts = IF edges > 4 THEN 17 ELSE 0,
                       !.score = SCORE_PER_EDGE_PART
                                   * (PARTS_PER_EDGE * (edges - 4) + k
                                      + PARTS_PER_PLASMA * plasma)
                                 + (IF edges > 4 THEN 17 * SCORE_PER_WAVE_PART ELSE 0)])

\* health values: down with overkill, down, wounded, nearly full, full
HpValues(f) == {-3500, 0, 40000, Milli(f.maxHp) - 5000, Milli(f.maxHp)}

FnFighters ==
  LET grown == { GrownFighter(e, k, 0) : e \in {4, 5, 24, 25}, k \in 0..(PARTS_PER_EDGE - 1) }
                 \cup { GrownFighter(PLAYER_EDGE_CAP, 0, pl) : pl \in {0, 3, PLASMA_MAX} }
  IN UNION { { [f EXCEPT !.hp = h] : h \in HpValues(f) } : f \in grown }

FnRoll == CHOOSE r \in Rolls : r.etype = "chaser"

FnHist ==
  [last |-> "init", ticks |-> <<>>,
   probe |-> "fighter",        \* "fighter", "geometry", "legacy", "parts"
   op |-> "none",              \* the function called last
   before |-> makePlayer,      \* the fighter passed to it
   after |-> makePlayer,       \* the fighter it left
   again |-> makePlayer,       \* respawnFighter applied to after
   trail |-> <<>>,             \* before and after of the edge part pickups
   proj |-> [x |-> 0, y |-> 0, dx5 |-> 5, dy5 |-> 0, len |-> 0, w |-> 0],
   target |-> [x |-> 0, y |-> 0, r |-> 0],
   out |-> FALSE,              \* the result of rectHitProjectile
   rect |-> [x |-> 0, y |-> 0, w |-> 0, h |-> 0],
   ent |-> [x |-> 0, y |-> 0, r |-> 0],
   moved |-> [x |-> 0, y |-> 0, r |-> 0],   \* ent after resolveCircleRect
   frame |-> [dt |-> 0, moved |-> 0, stuckBefore |-> 0, stuckAfter |-> 0],
                               \* a frame of the bot's stuck detection
   edges |-> <<>>,             \* the numbers passed to computeStats, spawnScoreOrbs
   stats |-> <<>>]             \* the results of computeStats

FnStart(f, probe) ==
  /\ clock = 0
  /\ paused = TRUE
  /\ lastT = 0
  /\ loopRunning = FALSE
  /\ pending = 0
  /\ keys = {}
  /\ state = [resetGame(0, Input(FnRoll, {})) EXCEPT !.player = f]
  /\ hist = [FnHist EXCEPT !.probe = probe]
  /\ steps = 0

FnInit ==
  \/ \E f \in FnFighters : FnStart(f, "fighter")
  \/ FnStart(recomputeFighterStats(makePlayer), "geometry")

\* respawnFighter(state.player, true) at time clock
FnRespawn ==
  /\ hist.probe = "fighter"
  /\ steps < FnSteps
  /\ state' = [state EXCEPT !.player = respawnFighter(state.player, TRUE, clock)]
  /\ hist' = [hist EXCEPT !.op = "respawnFighter",
                          !.before = state.player,
                          !.after = respawnFighter(state.player, TRUE, clock),
                          !.again = respawnFighter(
                                      respawnFighter(state.player, TRUE, clock),
                                      TRUE, clock)]
  /\ steps' = steps + 1
  /\ UNCHANGED <<clock, paused, lastT, loopRunning, pending, keys>>

\* pickupPart(state.player, part) for a part of the given kind; only a
\* fighter that is up picks up parts
FnPickup(kind) ==
  /\ hist.probe = "fighter"
  /\ steps < FnSteps
  /\ state.player.hp > 0
  /\ state' = [state EXCEPT !.player = pickupPart(state.player, Part(kind, 0, clock))]
  /\ hist' = [hist EXCEPT
                !.op = "pickupPart",
                !.before = state.player,
                !.after = pickupPart(state.player, Part(kind, 0, clock)),
                !.trail = IF kind = "edge"
                            THEN Append(@, [before |-> state.player,
                                            after |-> pickupPart(state.player,
                                                                 Part(kind, 0, clock))])
                            ELSE @]
  /\ steps' = steps + 1
  /\ UNCHANGED <<clock, paused, lastT, loopRunning, pending, keys>>

\* addPlasma(state.player, 1), which pickupPart calls for a fighter at
\* PLAYER_EDGE_CAP
FnAddPlasma ==
  /\ hist.probe = "fighter"
  /\ steps < FnSteps
  /\ state.player.hp > 0
  /\ state.player.edges = PLAYER_EDGE_CAP
  /\ state' = [state EXCEPT !.player = addPlasma(state.player, 1)]
  /\ hist' = [hist EXCEPT !.op = "addPlasma",
                          !.before = state.player,
                          !.after = addPlasma(state.player, 1)]
  /\ steps' = steps + 1
  /\ UNCHANGED <<clock, paused, lastT, loopRunning, pending, keys>>

\* addWave(state.player, 1)
FnAddWave ==
  /\ hist.probe = "fighter"
  /\ steps < FnSteps
  /\ state.player.hp > 0
  /\ state' = [state EXCEPT !.player = addWave(state.player, 1)]
  /\ hist' = [hist EXCEPT !.op = "addWave",
                          !.before = state.player,
                          !.after = addWave(state.player, 1)]
  /\ steps' = steps + 1
  /\ UNCHANGED <<clock, paused, lastT, loopRunning, pending, keys>>

\* Shapes, at a tenth of the game's scale.  A projectile of width 4 starts
\* at (1, -1) and runs 0, 5 or 10 units along an axis or along (3/5, 4/5);
\* targets of radius 3 lie on the grid around it.
GeoReach == 6
GeoLens == {0, 5, 10}
GeoDirs == {<<5, 0>>, <<0, 5>>, <<3, 4>>}
GeoProjs ==
  { [x |-> 1, y |-> -1, dx5 |-> d[1], dy5 |-> d[2], len |-> l, w |-> 4] :
      d \in GeoDirs, l \in GeoLens }
GeoTargets ==
  { [x |-> x, y |-> y, r |-> 3] :
      x \in (1 - GeoReach)..(11 + GeoReach), y \in (-1 - GeoReach)..(9 + GeoReach) }

\* a probe of a function of numbers makes one call
FnGeometry == hist.probe = "geometry" /\ steps = 0

\* spawnScoreOrbs(x, y, amount) on the empty field
FnMaxDrop == 300
FnSpawnOrbs(amount) ==
  /\ FnGeometry
  /\ state' = spawnScoreOrbs(state, amount, clock)
  /\ hist' = [hist EXCEPT !.op = "spawnScoreOrbs", !.edges = <<amount>>]
  /\ steps' = steps + 1
  /\ UNCHANGED <<clock, paused, lastT, loopRunning, pending, keys>>

\* computeStats(e) and computeStats(e2) for two edge counts
FnComputeStats(e, e2) ==
  /\ FnGeometry
  /\ hist' = [hist EXCEPT !.op = "computeStats", !.edges = <<e, e2>>,
                          !.stats = <<computeStats(e), computeStats(e2)>>]
  /\ steps' = steps + 1
  /\ UNCHANGED <<clock, paused, lastT, loopRunning, pending, keys, state>>

\* rectHitProjectile(proj, target)
FnRectHit(proj, target) ==
  /\ FnGeometry
  /\ hist' = [hist EXCEPT !.op = "rectHitProjectile", !.proj = proj,
                          !.target = target,
                          !.out = rectHitProjectile(proj, target)]
  /\ steps' = steps + 1
  /\ UNCHANGED <<clock, paused, lastT, loopRunning, pending, keys, state>>

\* The smallest obstacle makeObstacle makes, at the least x and y, and the
\* fighters around and inside it.
RectReach == 21
GeoRect == [x |-> 100, y |-> 100, w |-> 70, h |-> 50]
GeoEnts ==
  { [x |-> x, y |-> y, r |-> PLAYER_RADIUS] :
      x \in (GeoRect.x - RectReach)..(GeoRect.x + GeoRect.w + RectReach),
      y \in (GeoRect.y - RectReach)..(GeoRect.y + GeoRect.h + RectReach) }

IsSquare(n) == \E k \in 0..n : k * k = n

\* the entities for which resolveCircleRect computes in whole units
Whole(ent, rect) ==
  LET c == closest(ent.x, ent.y, rect)
      dx == ent.x - c.x
      dy == ent.y - c.y
      d2 == dx * dx + dy * dy
      r == ent.r + 2
  IN IF d2 = 0 \/ d2 >= r * r THEN TRUE
     ELSE IF ~IsSquare(d2) THEN FALSE
     ELSE /\ (dx * (r - Sqrt(d2))) % Sqrt(d2) = 0
          /\ (dy * (r - Sqrt(d2))) % Sqrt(d2) = 0

\* resolveCircleRect(ent, rect)
FnResolve(ent, rect) ==
  /\ FnGeometry
  /\ Whole(ent, rect)
  /\ hist' = [hist EXCEPT !.op = "resolveCircleRect", !.ent = ent,
                          !.rect = rect,
                          !.moved = resolveCircleRect(ent, rect)]
  /\ steps' = steps + 1
  /\ UNCHANGED <<clock, paused, lastT, loopRunning, pending, keys, state>>

RECURSIVE WholeFrom(_, _, _)
\* every push-out of resolveObstacles computes in whole units
WholeFrom(ent, obs, k) ==
  IF k > Len(obs) THEN TRUE
  ELSE IF Whole(ent, obs[k]) THEN WholeFrom(resolveCircleRect(ent, obs[k]), obs, k + 1)
  ELSE FALSE

ENEMY_RADIUS == 16
BOSS_RADIUS == 34

\* Obstacle layouts at the corners of the range of makeObstacle: the
\* smallest rectangle in the corner nearest the origin; the same with a
\* second one 1 px below it; the largest in the opposite corner.
MoveLayouts ==
  { <<GeoRect>>,
    <<GeoRect, [x |-> 100, y |-> 151, w |-> 70, h |-> 50]>>,
    <<[x |-> WORLD_W - 100 - 190, y |-> WORLD_H - 100 - 160, w |-> 189, h |-> 159]>> }

\* a skitter, a fighter and the boss, near those corners
MoveEnts ==
  { [x |-> x, y |-> y, r |-> r] :
      x \in {30, 64, 82, 96, 130, 171, 188} \cup {WORLD_W - 30, WORLD_W - 64, WORLD_W - 82,
                                                 WORLD_W - 102, WORLD_W - 200},
      y \in {30, 64, 82, 96, 125, 150, 168} \cup {WORLD_H - 30, WORLD_H - 64, WORLD_H - 82,
                                                 WORLD_H - 102, WORLD_H - 200},
      r \in {ENEMY_RADIUS - 2, PLAYER_RADIUS, BOSS_RADIUS} }

\* displacements of one tick, also beyond the border
MoveSteps == { <<0, 0>>, <<-60, 0>>, <<0, -60>>, <<60, 60>>, <<-2, -4>> }

\* moveEntity(ent, dt, speed) on the obstacle layout obs
FnMove(ent, m, obs) ==
  /\ FnGeometry
  /\ WholeFrom(resolveWorldBounds([ent EXCEPT !.x = @ + m[1], !.y = @ + m[2]]), obs, 1)
  /\ hist' = [hist EXCEPT
                !.op = "moveEntity", !.ent = ent,
                !.target = resolveWorldBounds([ent EXCEPT !.x = @ + m[1], !.y = @ + m[2]]),
                !.moved = moveEntity(ent, m[1], m[2], obs)]
  /\ steps' = steps + 1
  /\ UNCHANGED <<clock, paused, lastT, loopRunning, pending, keys, state>>

\* where the boss stands relative to the home point of the respawning fighter:
\* on it, one pixel off, and on rays with whole distances up to 500 px
BossOffsets ==
  { <<0, 0>>, <<1, 0>>, <<0, -1>>, <<-120, 160>>, <<120, -160>>, <<-249, 332>>,
    <<249, 332>>, <<419, 0>>, <<0, -419>>, <<252, 336>>, <<-420, 0>>, <<300, 400>> }

\* respawnFighter(p, isPlayer) with the boss at the home point plus off
FnShove(isPlayer, hasBoss, off) ==
  /\ FnGeometry
  /\ LET bx == WORLD_W \div 2 + (IF isPlayer THEN 0 ELSE 220) + off[1]
         by == (WORLD_H * 55) \div 100 + (IF isPlayer THEN 0 ELSE 160) + off[2]
     IN hist' = [hist EXCEPT
                   !.op = "respawnPosition", !.out = hasBoss,
                   !.ent = [x |-> bx, y |-> by, r |-> BOSS_RADIUS],
                   !.moved = respawnPosition(PLAYER_RADIUS, isPlayer, hasBoss, bx, by)]
  /\ steps' = steps + 1
  /\ UNCHANGED <<clock, paused, lastT, loopRunning, pending, keys, state>>

BASE_SPEED == 230
\* 2.0 px, in 1/100000 px
BOT_STUCK_DIST_EPS == 200000

\* Math.hypot(b.x - preX, b.y - preY) in 1/100000 px after
\* moveEntity(b, dt, BASE_SPEED * 0.94) when neither resolveWorldBounds nor
\* an obstacle moves the bot; v100: Math.hypot(b.vx, b.vy) in hundredths,
\* dt in ms
freeMove(v100, dt) == (BASE_SPEED * 94 * v100 * dt) \div 100

\* Math.hypot(b.vx, b.vy) > 0.2
trying(v100) == v100 > 20

\* One frame of updateBot for a bot that moves freely: the movement and the
\* stuck detection. n: b.stuckFrames before.
FnBotFrame(v100, dt, n) ==
  /\ FnGeometry
  /\ hist' = [hist EXCEPT
                !.op = "updateBot",
                !.frame = [dt |-> dt, moved |-> freeMove(v100, dt), stuckBefore |-> n,
                           stuckAfter |-> stuckCount(n, trying(v100) /\
                                                        freeMove(v100, dt) < BOT_STUCK_DIST_EPS)],
                !.out = stuckCount(n, trying(v100) /\
                                      freeMove(v100, dt) < BOT_STUCK_DIST_EPS) >= BOT_STUCK_FRAMES]
  /\ steps' = steps + 1
  /\ UNCHANGED <<clock, paused, lastT, loopRunning, pending, keys, state>>

FnNext ==
  \/ FnRespawn
  \/ FnAddPlasma
  \/ FnAddWave
  \/ \E kind \in {"edge", "regen"} : FnPickup(kind)
  \/ FnGeometry /\ \E proj \in GeoProjs, target \in GeoTargets : FnRectHit(proj, target)
  \/ FnGeometry /\ \E ent \in GeoEnts : FnResolve(ent, GeoRect)
  \/ FnGeometry /\ \E e \in 4..EDGE_CAP, e2 \in 4..EDGE_CAP : FnComputeStats(e, e2)
  \/ FnGeometry /\ \E amount \in 1..FnMaxDrop : FnSpawnOrbs(amount)
  \/ FnGeometry /\ \E isPlayer \in BOOLEAN, hasBoss \in BOOLEAN, off \in BossOffsets :
       FnShove(isPlayer, hasBoss, off)
  \/ FnGeometry /\ \E ent \in MoveEnts, m \in MoveSteps, obs \in MoveLayouts :
       FnMove(ent, m, obs)
  \/ FnGeometry /\ \E dt \in 1..33, n \in 0..(BOT_STUCK_FRAMES - 1) :
       FnBotFrame(100, dt, n)

FnSpec == FnInit /\ [][FnNext]_vars

(***************************************************************************)
(* Properties.  hist.ticks holds the tick callbacks of the last frame.      *)
(***************************************************************************)
Fighters == {state.player, state.botPlayer}

Ticks == { hist.ticks[i] : i \in 1..Len(hist.ticks) }

\* the applyDamage calls of the last frame
Calls == UNION { { t.calls[i] : i \in 1..Len(t.calls) } : t \in Ticks }

\* the calls whose hit brought the defender's health to 0
Kills == { c \in Calls : c.outcome = "hit" /\ c.ko }

\* C1: in every reachable state each fighter (player and bot) has
\* 0 <= hp <= maxHp, 0 <= edges <= PLAYER_EDGE_CAP, 0 <= plasma <= PLASMA_MAX
\* and 0 <= wave <= WAVE_MAX.
C1_FighterBounds ==
  \A f \in Fighters :
    /\ 0 <= f.hp /\ f.hp <= Milli(f.maxHp)
    /\ 0 <= f.edges /\ f.edges <= 26
    /\ 0 <= f.plasma /\ f.plasma <= 10
    /\ 0 <= f.wave /\ f.wave <= 8

\* a fighter at all three caps has picked up one more wave part than the
\* wave cap needs
C1_Witness ==
  \E f \in Fighters :
    /\ f.edges = PLAYER_EDGE_CAP /\ f.plasma = PLASMA_MAX /\ f.wave = WAVE_MAX
    /\ f.waveParts >= WAVE_PARTS_PER_LEVEL * (WAVE_MAX + 1)

\* C2: on a PvP elimination with loser score S, dropped = floor(S * 0.35),
\* the loser's score becomes S - dropped, and the values of the score orbs
\* the elimination adds to the field sum to exactly dropped.
C2_PvPDrop ==
  \A c \in Kills :
    c.branch = "pvp" =>
      LET dropped == (35 * c.defScoreBefore) \div 100
      IN /\ c.defScoreAfter = c.defScoreBefore - dropped
         /\ SeqSum(c.orbs) = dropped

\* C3: when applyDamage brings a defender's health to 0 exactly one outcome
\* is applied, in the priority order (1) the defender is the boss, (2)
\* attacker and defender are the two distinct fighters: the defender drops
\* score as orbs, the attacker gains the kill bonus, the defender respawns,
\* (3) the defender is a wild enemy: the kill counter increases by 1, the
\* attacker gains SCORE_PER_ENEMY_KO, the enemy respawns, (4) otherwise the
\* defender respawns with its score unchanged.  The kill counter changes
\* only in case 3 and a fighter's score decreases only in case 2.
C3_Case(c) ==
  IF c.def.k = "boss" THEN "boss"
  ELSE IF c.def.k \in {"player", "bot"} /\ c.att.k \in {"player", "bot"}
          /\ c.att # c.def THEN "pvp"
  ELSE IF c.def.k = "enemy" THEN "enemy"
  ELSE "fighter"

C3_DeathDispatch ==
  /\ \A c \in Kills :
       /\ c.branch = C3_Case(c)
       /\ c.branch = "boss" =>
            /\ c.bossBefore /\ ~c.bossAfter
            /\ c.kosAfter = c.kosBefore /\ c.orbs = <<>>
       /\ c.branch = "pvp" =>
            /\ SeqSum(c.orbs) = c.defScoreBefore - c.defScoreAfter
            /\ c.defScoreAfter <= c.defScoreBefore
            /\ c.attScoreAfter = c.attScoreBefore + 50
            /\ c.defHpAfter > 0
            /\ c.kosAfter = c.kosBefore /\ c.bossAfter = c.bossBefore
       /\ c.branch = "enemy" =>
            /\ c.kosAfter = c.kosBefore + 1
            /\ c.attScoreAfter = c.attScoreBefore + 50
            /\ c.defHpAfter > 0
            /\ c.orbs = <<>> /\ c.bossAfter = c.bossBefore
       /\ c.branch = "fighter" =>
            /\ c.defScoreAfter = c.defScoreBefore
            /\ c.attScoreAfter = c.attScoreBefore
            /\ c.defHpAfter > 0
            /\ c.kosAfter = c.kosBefore /\ c.orbs = <<>>
            /\ c.bossAfter = c.bossBefore
  /\ \A c \in Calls :
       /\ c.kosAfter # c.kosBefore => c \in Kills /\ c.branch = "enemy"
       /\ c.defScoreAfter < c.defScoreBefore => c \in Kills /\ c.branch = "pvp"
       /\ c.attScoreAfter >= c.attScoreBefore

\* a fighter has eliminated the other one, who dropped score
C3_Witness ==
  \E c \in Kills : c.branch = "pvp" /\ c.defScoreAfter < c.defScoreBefore


\* C4: no tick fails on an absent collaborator: every applyDamage call is
\* made with an existing attacker and defender, also in the melee exchange
\* in which the fighter's own hit kills the boss, so every tick that runs
\* completes and schedules the next frame.
C4_NoAbsentCollaborator ==
  /\ \A c \in Calls : c.att # NULL /\ c.def # NULL
  /\ \A t \in Ticks : t.ran => ~t.threw /\ t.steps[Len(t.steps)] = "render"
  /\ hist.last = "frame" /\ (\E t \in Ticks : t.ran) => pending >= 1

\* C5: under every interleaving of pause, resume and reset commands with
\* frame callbacks at most one tick callback is pending, and the simulation
\* advances at most once per displayed frame.
C5_OnePendingTick ==
  /\ pending <= 1
  /\ Cardinality({ i \in 1..Len(hist.ticks) : hist.ticks[i].ran }) <= 1

\* C6: while the game is paused (from a pause command until the next resume
\* or reset) no simulation state changes, whatever input events arrive.
C6_PausedFrozen ==
  paused /\ hist.pausedAt >= 0 => Sim(state) = hist.atPause

\* the timestamps the simulation compares the clock with: cooldowns,
\* invulnerability windows, the part and boss spawn times, and the expiry of
\* the score orbs
Deadlines(sim) ==
  <<sim.nextPartAt, sim.nextBossAt,
    sim.player.hitReadyAt, sim.player.dashReadyAt, sim.player.waveReadyAt,
    sim.player.invulnUntil,
    sim.botPlayer.hitReadyAt, sim.botPlayer.dashReadyAt, sim.botPlayer.waveReadyAt,
    sim.botPlayer.invulnUntil>>
    \o [i \in 1..NumEnemies |-> sim.enemies[i].hitReadyAt]
    \o [i \in 1..Len(sim.partsOnField) |->
          IF sim.partsOnField[i].kind = "score"
            THEN sim.partsOnField[i].born + SCORE_ORB_LIFETIME_MS
            ELSE 0]

\* the time left to each deadline at time t (0 once it has passed)
Remaining(sim, t) ==
  LET d == Deadlines(sim) IN [i \in 1..Len(d) |-> Max(0, d[i] - t)]

\* C7: pausing causes no drift: the remaining time of every cooldown,
\* invulnerability window, orb lifetime and spawn countdown is the same at
\* resume as it was at pause.
C7_NoDrift ==
  hist.resume.valid =>
    Remaining(hist.resume.after, hist.resume.resumedAt)
      = Remaining(hist.resume.before, hist.resume.pausedAt)


\* the ticks of the last frame that ran, in order
RanTicks == SelectSeq(hist.ticks, LAMBDA t : t.ran)

\* C8: in every tick dt = min(33 ms, now - lastT) and lastT is then set to
\* now, so dt never exceeds 33 ms however long no tick ran; resume sets lastT
\* to the current time, so the first tick after a resume measures the time
\* since the resume, not since the pause.
C8_DeltaClamp ==
  /\ \A i \in 1..Len(RanTicks) :
       LET t == RanTicks[i]
       IN /\ t.dt = (IF t.now - t.lastTBefore < 33 THEN t.now - t.lastTBefore ELSE 33)
          /\ t.dt <= 33
          \* lastT was set to now by the tick before
          /\ i > 1 => t.lastTBefore = RanTicks[i - 1].now
  /\ hist.last = "frame" /\ RanTicks # <<>> => lastT = clock
  /\ hist.last = "resume" => lastT = clock
  /\ hist.last = "frame" /\ RanTicks # <<>> /\ hist.ranSince = Len(RanTicks)
       => RanTicks[1].lastTBefore = hist.resumedAt

\* the first tick after a resume that ended a pause, more than 33 ms after
\* the resume
C8_Witness ==
  /\ hist.last = "frame" /\ hist.resume.valid
  /\ hist.resume.resumedAt > hist.resume.pausedAt
  /\ hist.ranSince = 1 /\ Len(RanTicks) = 1
  /\ RanTicks[1].now - hist.resumedAt > 33
  /\ RanTicks[1].dt = 33

\* the steps of a tick, in the order of the code
TickOrder ==
  <<"parts", "bossSpawn", "player", "bot">>
    \o [i \in 1..NumEnemies |-> "enemy"]
    \o <<"boss", "projectiles", "render">>

\* the melee calls between the two fighters in a tick's calls
PvPMelee(t) ==
  SelectSeq(t.calls, LAMBDA c : ~c.fromWave /\ c.att.k \in {"player", "bot"}
                                /\ c.def.k \in {"player", "bot"})

C10_BossKill ==
  \A c \in Kills :
    c.def = BOSS =>
      /\ c.bossBefore /\ ~c.bossAfter
      /\ c.attScoreAfter = c.attScoreBefore + 250
      /\ c.kosAfter = c.kosBefore
      /\ c.nextBossAt > c.now

\* a wave has killed the boss
C10_Witness ==
  \E c \in Kills : c.def = BOSS /\ c.fromWave /\ ~bossAlive(state)

\* C11: a boss is created only in a tick in which no boss is alive and
\* now >= nextBossAt; every boss creation, boss defeat and reset sets
\* nextBossAt to now plus a delay in [BOSS_MIN_SPAWN_MS, BOSS_MAX_SPAWN_MS];
\* hence a creation directly follows a defeat or a reset, never another
\* creation, and comes at least 24000 ms after it and after the creation
\* before.
C11_BossSchedule ==
  /\ \A i \in 1..Len(state.bossLog) :
       LET e == state.bossLog[i]
       IN /\ e.nextBossAt - e.at >= 24000
          /\ e.nextBossAt - e.at <= 45000
          /\ e.what = "created" =>
               /\ ~e.bossBefore
               /\ e.at >= e.dueBefore
               /\ \A j \in 1..(i - 1) : e.at - state.bossLog[j].at >= 24000
               /\ i > 1 => state.bossLog[i - 1].what \in {"defeated", "reset"}
          /\ e.what = "defeated" => e.bossBefore
  /\ state.nextBossAt = state.bossLog[Len(state.bossLog)].nextBossAt

\* the frame just run created a boss, after an earlier defeat
C11_Witness ==
  /\ hist.last = "frame" /\ bossAlive(state)
  /\ \E i \in 2..Len(state.bossLog) :
       /\ state.bossLog[i].what = "created" /\ state.bossLog[i].at = clock
       /\ state.bossLog[i - 1].what = "defeated"

\* C12: a defender whose spawn invulnerability is active (now < invulnUntil)
\* takes no damage: applyDamage, for melee and wave hits alike, leaves its
\* health unchanged and triggers no on-death effect (no kill, no score
\* change, no orbs, no respawn, no change of the boss).
C12_InvulnNoDamage ==
  \A c \in Calls :
    c.outcome # "throw" /\ c.now < c.defInvulnUntil =>
      /\ c.defHpAfter = c.defHpBefore
      /\ ~c.ko /\ c.branch = "none"
      /\ c.kosAfter = c.kosBefore
      /\ c.attScoreAfter = c.attScoreBefore /\ c.defScoreAfter = c.defScoreBefore
      /\ c.orbs = <<>> /\ c.bossAfter = c.bossBefore

\* a wave has hit a fighter during its spawn protection
C12_Witness ==
  \E c \in Calls : c.fromWave /\ c.outcome = "invuln" /\ c.now < c.defInvulnUntil

\* C13: a hit attempted against an invulnerable defender consumes no
\* cooldown from the attacker: applyDamage leaves the attacker's hitReadyAt
\* unchanged.
C13_InvulnKeepsCooldown ==
  \A c \in Calls :
    c.outcome # "throw" /\ c.now < c.defInvulnUntil =>
      c.attReadyAfter = c.attReadyBefore

\* C14: a melee applyDamage is ignored exactly while now < attacker.hitReadyAt,
\* whatever the other direction of the exchange did; every accepted hit sets
\* hitReadyAt = now + HIT_COOLDOWN_MS; so two melee damage applications by the
\* same attacker are at least 320 ms apart.
C14_MeleeGate ==
  \A c \in Calls :
    ~c.fromWave /\ c.outcome # "throw" =>
      /\ c.outcome = "cooldown" <=> c.now < c.attReadyBefore
      /\ c.outcome = "cooldown" =>
           /\ c.attReadyAfter = c.attReadyBefore
           /\ c.defHpAfter = c.defHpBefore
      /\ c.outcome # "cooldown" => c.attReadyAfter = c.now + 320
      /\ c.outcome = "hit" /\ c.attMeleeBefore # -1 =>
           c.now - c.attMeleeBefore >= 320

\* an attacker that has hit before lands a melee hit, in an exchange whose
\* other direction is still on cooldown
C14_Witness ==
  \E t \in Ticks : \E i \in 1..(Len(t.calls) - 1) :
    LET c == t.calls[i]
        d == t.calls[i + 1]
    IN /\ ~c.fromWave /\ c.outcome = "hit"
       /\ c.attMeleeBefore # -1 /\ c.now - c.attMeleeBefore >= 320
       /\ ~d.fromWave /\ d.att = c.def /\ d.def = c.att /\ d.outcome = "cooldown"
       /\ d.now < d.attReadyBefore

\* C15: tryWave creates a projectile only if the caster's wave level is > 0
\* and now >= waveReadyAt; a successful cast adds exactly one projectile and
\* sets waveReadyAt = now + WAVE_COOLDOWN_MS, so two successful casts by the
\* same caster are at least 950 ms apart; a rejected cast changes no state.
C15_WaveGate ==
  \A i \in 1..Len(state.waveLog) :
    LET w == state.waveLog[i]
    IN IF w.wave > 0 /\ w.now >= w.readyBefore
         THEN /\ w.cast /\ w.added = 1
              /\ w.readyAfter = w.now + 950
              /\ w.castBefore # -1 => w.now - w.castBefore >= 950
         ELSE /\ ~w.cast /\ w.added = 0
              /\ ~w.changed

\* a caster's cast was rejected during its cooldown and its next cast
\* succeeded, 950 ms or more after the cast before
C15_Witness ==
  \E i, j \in 1..Len(state.waveLog) :
    /\ i < j /\ state.waveLog[i].who = state.waveLog[j].who
    /\ ~state.waveLog[i].cast /\ state.waveLog[i].wave > 0
    /\ state.waveLog[j].cast /\ state.waveLog[j].castBefore # -1

\* the ticks' records of the projectiles they processed
ShotsOf(t) == { t.shots[i] : i \in 1..Len(t.shots) }

\* what updateProjectiles did with each projectile in the last frame
C16_Shots ==
  /\ \A t \in Ticks :
       /\ \A s \in ShotsOf(t) :
            /\ s.target # s.owner
            /\ s.calls <= 1
            /\ s.removed # s.kept
            /\ s.target # NULL =>
                 /\ s.calls = 1 /\ s.removed
                 /\ \E c \in { t.calls[i] : i \in 1..Len(t.calls) } :
                      c.fromWave /\ c.att = s.owner /\ c.def = s.target
            /\ s.target = NULL =>
                 /\ s.calls = 0 /\ ~s.touched
                 /\ s.removed <=> s.age * 980 >= 520 * 1000
       \* no wave damage but by a projectile's hit
       /\ Len(SelectSeq(t.calls, LAMBDA c : c.fromWave))
            = Len(SelectSeq(t.shots, LAMBDA s : s.target # NULL))
  \* a projectile in flight after a tick has not reached its lifetime
  /\ \A i \in 1..Len(state.projectiles) :
       state.projectiles[i].age * 980 < 520 * 1000

NearSegment(proj, target) ==
  LET v == segV(proj)
      n == Max(1, v.x * v.x + v.y * v.y)
      wx == target.x - proj.x
      wy == target.y - proj.y
      reach_x2 == 2 * target.r + proj.w
  IN \E k \in 0..n :
       4 * dist2(n * wx, n * wy, k * v.x, k * v.y) <= reach_x2 * reach_x2 * n * n

\* C17: rectHitProjectile(proj, target) is true exactly when the distance
\* from the target's centre to the projectile's segment is at most
\* target.r + proj.w / 2, the boundary included.
C17_CapsuleTest ==
  hist.op = "rectHitProjectile"
    => (hist.out <=> NearSegment(hist.proj, hist.target))

\* a target beside the middle of a slanted segment, at exactly
\* target.r + proj.w / 2 from it, is hit
C17_Witness ==
  /\ hist.op = "rectHitProjectile"
  /\ hist.out
  /\ hist.proj.dx5 = 3
  /\ LET v == segV(hist.proj)
         wx == hist.target.x - hist.proj.x
         wy == hist.target.y - hist.proj.y
         c1 == v.x * wx + v.y * wy
         c2 == v.x * v.x + v.y * v.y
         reach_x2 == 2 * hist.target.r + hist.proj.w
     IN /\ 2 * c1 = c2
        /\ c2 > 0
        /\ 4 * dist2(c2 * wx, c2 * wy, c1 * v.x, c1 * v.y)
             = reach_x2 * reach_x2 * c2 * c2

\* the centre of ent lies inside the rectangle, off its border
CentreInside(ent, rect) ==
  /\ rect.x < ent.x /\ ent.x < rect.x + rect.w
  /\ rect.y < ent.y /\ ent.y < rect.y + rect.h

\* the square of the distance from the centre of ent to the nearest point
\* of the rectangle's edges
edgeDist2(ent, rect) ==
  IF closest(ent.x, ent.y, rect) = [x |-> ent.x, y |-> ent.y]
    THEN LET m == Min(Min(ent.x - rect.x, rect.x + rect.w - ent.x),
                      Min(ent.y - rect.y, rect.y + rect.h - ent.y))
         IN m * m
    ELSE LET c == closest(ent.x, ent.y, rect)
         IN dist2(ent.x, ent.y, c.x, c.y)

\* C18: after resolveCircleRect(ent, rect) on an entity whose centre lies
\* inside the rectangle, the entity is at least its radius away from the
\* nearest edge point of the rectangle.
C18_PushedOut ==
  (hist.op = "resolveCircleRect" /\ CentreInside(hist.ent, hist.rect))
    => edgeDist2(hist.moved, hist.rect) >= hist.moved.r * hist.moved.r

\* C19: respawnFighter leaves hp = maxHp, atk, def and maxHp as computed
\* from the fighter's edges and plasma, and edges, plasma, wave, the part
\* counters and the score as they were; a second respawnFighter gives the
\* same stats.
C19_Respawn ==
  hist.op = "respawnFighter" =>
    LET b == hist.before
        a == hist.after
        base == computeStats(b.edges)
    IN /\ a.hp = Milli(a.maxHp)
       /\ a.maxHp = base.maxHp
       /\ a.def = base.def
       /\ a.atk = base.atk + b.plasma * PLASMA_ATK_PER_LEVEL
       /\ a.edges = b.edges /\ a.plasma = b.plasma /\ a.wave = b.wave
       /\ a.parts = b.parts /\ a.plasmaParts = b.plasmaParts
       /\ a.waveParts = b.waveParts /\ a.regenParts = b.regenParts
       /\ a.score = b.score
       /\ hist.again.hp = a.hp /\ hist.again.maxHp = a.maxHp
       /\ hist.again.atk = a.atk /\ hist.again.def = a.def

\* a fighter at PLAYER_EDGE_CAP with full plasma that is down respawns,
\* after an edge part pickup raised another fighter's edges or not
C19_Witness ==
  /\ hist.op = "respawnFighter"
  /\ hist.before.hp <= 0
  /\ hist.before.edges = PLAYER_EDGE_CAP
  /\ hist.before.plasma = PLASMA_MAX
  /\ hist.after.hp = Milli(hist.after.maxHp)
  /\ hist.after.atk = computeStats(PLAYER_EDGE_CAP).atk + PLASMA_MAX * PLASMA_ATK_PER_LEVEL

\* the edge part pickups made so far all started below PLAYER_EDGE_CAP
BelowCap == \A i \in 1..Len(hist.trail) : hist.trail[i].before.edges < PLAYER_EDGE_CAP

\* C20: while edges stay below PLAYER_EDGE_CAP, an edge part pickup raises
\* parts by 1; the pickup that makes parts a multiple of 3 raises edges by 1
\* and heals round(0.12 * maxHp) of the new maxHp, clamped to it; the other
\* pickups leave edges and hp alone; so 3 consecutive pickups raise edges by
\* exactly 1.
C20_EdgeEveryThree ==
  (hist.probe = "fighter" /\ BelowCap) =>
    /\ \A i \in 1..Len(hist.trail) :
         LET b == hist.trail[i].before
             a == hist.trail[i].after
         IN /\ a.parts = b.parts + 1
            /\ IF a.parts % 3 = 0
                 THEN /\ a.edges = b.edges + 1
                      /\ a.maxHp = computeStats(a.edges).maxHp
                      /\ a.hp = Min(Milli(a.maxHp),
                                    b.hp + Milli((12 * a.maxHp + 50) \div 100))
                 ELSE /\ a.edges = b.edges
                      /\ a.maxHp = b.maxHp
                      /\ a.hp = b.hp
    /\ Len(hist.trail) = 3 =>
         /\ hist.trail[3].after.edges = hist.trail[1].before.edges + 1
         /\ Cardinality({ i \in 1..3 : hist.trail[i].after.edges
                                         = hist.trail[i].before.edges + 1 }) = 1

\* three edge part pickups below the cap, the second of which raises edges
\* and heals without reaching maxHp
C20_Witness ==
  /\ Len(hist.trail) = 3
  /\ BelowCap
  /\ hist.trail[2].after.edges = hist.trail[2].before.edges + 1
  /\ hist.trail[2].after.hp > hist.trail[2].before.hp
  /\ hist.trail[2].after.hp < Milli(hist.trail[2].after.maxHp)

(***************************************************************************)
(* The bot, the field and the spawn points.                                *)
(***************************************************************************)
\* the bot updates of the last frame, each with its tick
BotTicks == { t \in Ticks : t.bot.ran }

\* C21: the bot's stuckFrames goes up by 1 in a tick in which it tries to
\* move and is displaced less than BOT_STUCK_DIST_EPS, and down by 1, not
\* below 0, in any other tick; when that makes it BOT_STUCK_FRAMES the bot
\* enters Escape in the same tick: stuckFrames is 0 and escapeUntil is later
\* than the tick's time; otherwise escapeUntil is left alone.
C21_StuckEscape ==
  \A t \in BotTicks :
    LET n == IF Ev("stuck", BOT, NULL, 0) \in t.ev
               THEN t.bot.stuckBefore + 1
               ELSE IF t.bot.stuckBefore > 0 THEN t.bot.stuckBefore - 1 ELSE 0
    IN IF n >= 10
         THEN t.bot.stuckAfter = 0 /\ t.bot.escAfter > t.now
         ELSE t.bot.stuckAfter = n /\ t.bot.escAfter = t.bot.escBefore

\* the tenth stuck tick in a row sends the bot into Escape
C21_Witness ==
  \E t \in BotTicks :
    /\ Ev("stuck", BOT, NULL, 0) \in t.ev
    /\ t.bot.stuckBefore = BOT_STUCK_FRAMES - 1
    /\ t.bot.stuckAfter = 0
    /\ t.bot.escBefore <= t.now
    /\ t.bot.escAfter > t.now
    /\ state.botPlayer.escapeUntil = t.bot.escAfter

\* C22: an addPlasma or addWave that changes the fighter's level heals the
\* fighter: its hp rises, by a positive amount cut off at maxHp; one that
\* the clamp keeps from changing the level leaves the fighter as it was.
C22_LevelHeal ==
  hist.op \in {"addPlasma", "addWave"} =>
    LET b == hist.before
        a == hist.after
    IN IF a.plasma # b.plasma \/ a.wave # b.wave
         THEN /\ a.hp >= b.hp
              /\ a.hp <= Milli(a.maxHp)
              /\ b.hp < Milli(a.maxHp) => a.hp > b.hp
         ELSE a = b

\* C23: for edge counts 4 <= e < e2 <= cap, the cap being PLAYER_EDGE_CAP
\* for fighters and EDGE_CAP for enemies, computeStats(e) is at most
\* computeStats(e2) in atk, def and maxHp, and computeStats(4) is atk 10,
\* def 10, maxHp 100.
C23_StatsMonotone ==
  hist.op = "computeStats" =>
    LET e == hist.edges[1]
        e2 == hist.edges[2]
        s == hist.stats[1]
        s2 == hist.stats[2]
    IN /\ (4 <= e /\ e < e2 /\ e2 <= Max(PLAYER_EDGE_CAP, EDGE_CAP)) =>
            (s.atk <= s2.atk /\ s.def <= s2.def /\ s.maxHp <= s2.maxHp)
       /\ e = 4 => s = [atk |-> 10, def |-> 10, maxHp |-> 100]

\* the stats at an enemy's cap are above those at a fighter's cap
C23_Witness ==
  /\ hist.op = "computeStats"
  /\ hist.edges = <<PLAYER_EDGE_CAP, EDGE_CAP>>
  /\ hist.stats[1].atk < hist.stats[2].atk
  /\ hist.stats[1].def < hist.stats[2].def
  /\ hist.stats[1].maxHp < hist.stats[2].maxHp

\* the drawParts calls of the last frame, each with its tick
DrawTicks == { t \in Ticks : t.draw.ran }

\* the part is a score orb created more than SCORE_ORB_LIFETIME_MS before now
Expired(p, now) == p.kind = "score" /\ now - p.born > 12000

\* C24: the render step of a tick removes from the field the score orbs
\* created more than SCORE_ORB_LIFETIME_MS before the tick's time and no
\* other part, whatever its age, and changes no fighter's score.
C24_OrbExpiry ==
  \A t \in DrawTicks :
    /\ t.draw.after = SelectSeq(t.draw.before, LAMBDA p : ~Expired(p, t.now))
    /\ \A i \in 1..Len(t.draw.after) : ~Expired(t.draw.after[i], t.now)
    /\ t.draw.scoresAfter = t.draw.scoresBefore

\* a tick in which an orb worth 30 expires while an edge part older than
\* the orb stays
C24_Witness ==
  \E t \in DrawTicks :
    /\ \E i \in 1..Len(t.draw.before) :
         Expired(t.draw.before[i], t.now) /\ t.draw.before[i].value = 30
    /\ Len(t.draw.after) = Len(t.draw.before) - 1
    /\ \E i \in 1..Len(t.draw.after) :
         /\ t.draw.after[i].kind = "edge"
         /\ t.now - t.draw.after[i].born > 12000
    /\ \A i \in 1..Len(state.partsOnField) : state.partsOnField[i].kind # "score"

\* the values of the parts on the field
FieldValues == [i \in 1..Len(state.partsOnField) |-> state.partsOnField[i].value]

\* C25: spawnScoreOrbs of a positive amount creates between 2 and 8 score
\* orbs whose values are non-negative integers, differ pairwise by at most
\* 1 and add up to the amount.
C25_OrbChunks ==
  hist.op = "spawnScoreOrbs" =>
    /\ Len(state.partsOnField) \in 2..8
    /\ \A i \in 1..Len(state.partsOnField) :
         /\ state.partsOnField[i].kind = "score"
         /\ FieldValues[i] \in Nat
         /\ \A j \in 1..Len(state.partsOnField) : FieldValues[i] - FieldValues[j] <= 1
    /\ SeqSum(FieldValues) = hist.edges[1]

\* 7 orbs that are not all worth the same
C25_Witness ==
  /\ hist.op = "spawnScoreOrbs"
  /\ Len(state.partsOnField) = 7
  /\ FieldValues[7] = FieldValues[1] + 1

(***************************************************************************)
(* buildObstacles, one loop iteration per step.  resetGame calls it first; *)
(* state.obstacles keeps the previous set until the loop has ended.  The   *)
(* draws of makeObstacle follow a scenario: attempt n gets the next free   *)
(* lattice rectangle when n is a multiple of scn.every and fewer than      *)
(* scn.good obstacles are placed, and otherwise a rectangle on the spawn   *)
(* point, one centred exactly 260 px from it, one centred 261 px from it   *)
(* (only if scn.past) or one touching the obstacle placed last.            *)
(***************************************************************************)
makeObstacle(scn, n, obs) ==
  IF n % scn.every = 0 /\ Len(obs) < scn.good THEN slot(Len(obs))
  ELSE IF n % 4 = 0 THEN OnSpawn
  ELSE IF n % 4 = 1 THEN AtRadius
  ELSE IF n % 4 = 2 THEN (IF scn.past THEN PastRadius ELSE AtRadius)
  ELSE IF obs = <<>> THEN OnSpawn
  ELSE Touching(obs[Len(obs)])

\* scenarios whose loop ends within a hundred attempts
QuickScenarios ==
  { [good |-> 28, every |-> 1, past |-> FALSE],
    [good |-> 40, every |-> 3, past |-> TRUE] }

\* scenarios with long runs of rejected candidates: nothing is ever placed;
\* four obstacles are placed and the other 3996 attempts fail; a free
\* rectangle comes up once in a hundred attempts
LongScenarios ==
  { [good |-> 0, every |-> 1, past |-> FALSE],
    [good |-> 3, every |-> 1, past |-> TRUE],
    [good |-> 40, every |-> 100, past |-> TRUE] }

ObsInit == \E r \in Rolls : Running(0, resetGame(0, Input(r, {})), 0)

\* btnReset click: resetGame() enters buildObstacles.  The long scenarios are
\* explored from the first handler only.
ObsReset(scn) ==
  /\ Step
  /\ ~hist.build.on
  /\ scn \in QuickScenarios \/ steps = 0
  /\ hist' = [hist EXCEPT !.last = "build",
                          !.build = [on |-> TRUE, obs |-> <<>>, attempts |-> 0,
                                     scn |-> scn]]
  /\ UNCHANGED <<clock, paused, lastT, loopRunning, pending, keys, state>>

\* one iteration of the loop
ObsAttempt ==
  /\ hist.build.on
  /\ buildGoesOn(hist.build)
  /\ hist' = [hist EXCEPT !.build =
                attempt(@, makeObstacle(@.scn, @.attempts + 1, @.obs))]
  /\ UNCHANGED <<clock, paused, lastT, loopRunning, pending, keys, state, steps>>

\* the loop ends: state.obstacles = obs, then the rest of resetGame
ObsBuilt(r) ==
  /\ hist.build.on
  /\ ~buildGoesOn(hist.build)
  /\ state' = resetGame(clock, [Input(r, {}) EXCEPT !.obstacles = hist.build.obs])
  /\ paused' = FALSE
  /\ hist' = [hist EXCEPT !.last = "reset", !.pausedAt = -1, !.atPause = <<>>,
                          !.build.on = FALSE]
  /\ UNCHANGED <<clock, lastT, loopRunning, pending, keys, steps>>

\* a frame between two resets; no handler runs while resetGame is running
ObsFrame(d, r) == ~hist.build.on /\ Frame(d, r, {})

ObsNext ==
  \/ \E scn \in QuickScenarios \cup LongScenarios : ObsReset(scn)
  \/ ObsAttempt
  \/ \E r \in Rolls : ObsBuilt(r)
  \/ \E d \in Deltas, r \in Rolls : ObsFrame(d, r)

\* the loop is straight-line code: once entered, it runs
ObsSpec ==
  ObsInit /\ [][ObsNext]_vars /\ WF_hist(ObsAttempt) /\ WF_hist(\E r \in Rolls : ObsBuilt(r))

\* two rectangles have no point in common
Apart(a, b) ==
  \/ Max(a.x, b.x) > Min(a.x + a.w, b.x + b.w)
  \/ Max(a.y, b.y) > Min(a.y + a.h, b.y + b.h)

\* squared distance of the centre of o from the player's spawn point, times 4
Centre4(o) ==
  (2 * o.x + o.w - WORLD_W) * (2 * o.x + o.w - WORLD_W)
    + (2 * o.y + o.h - 2860) * (2 * o.y + o.h - 2860)

GoodSet(obs) ==
  /\ Len(obs) <= OBSTACLE_COUNT
  /\ \A i \in 1..Len(obs) : Centre4(obs[i]) > 4 * 67600
  /\ \A i, j \in 1..Len(obs) : i # j => Apart(obs[i], obs[j])

ObsGood ==
  /\ hist.build.attempts <= 4000
  /\ GoodSet(hist.build.obs)
  /\ GoodSet(state.obstacles)

\* state.obstacles changes only in the step that ends a buildObstacles loop,
\* and becomes what the loop placed
ObsStable ==
  state'.obstacles # state.obstacles =>
    hist.build.on /\ ~hist'.build.on /\ state'.obstacles = hist.build.obs

\* C26: buildObstacles always ends, after at most 4000 attempts, with at most
\* OBSTACLE_COUNT obstacles, possibly fewer; the obstacles are pairwise
\* non-overlapping and the centre of each is more than 260 px from the
\* player's spawn point; the set does not change between resets.
C26_Obstacles ==
  /\ []ObsGood
  /\ [][ObsStable]_vars
  /\ (hist.build.on ~> ~hist.build.on)

\* a reset whose loop gave up after 4000 attempts with fewer obstacles than
\* OBSTACLE_COUNT, all of them in force
C26_Witness ==
  /\ hist.last = "reset"
  /\ hist.build.attempts = 4000
  /\ state.obstacles = hist.build.obs
  /\ Len(state.obstacles) \in 1..(OBSTACLE_COUNT - 1)

(***************************************************************************)
(* A crowded field: the late game after nobody has picked anything up for  *)
(* a while, so that spawnPart has filled the field to PART_MAX_ON_FIELD.   *)
(***************************************************************************)
CrowdKind(k) == IF k % 9 = 0 THEN "wave" ELSE IF k % 4 = 0 THEN "regen" ELSE "edge"

CrowdState(strongIsPlayer) ==
  [LateState(strongIsPlayer, TRUE) EXCEPT
     !.partsOnField =
        [k \in 1..PART_MAX_ON_FIELD |->
           Part(CrowdKind(k), 0,
                LateClock - 250 - PART_SPAWN_INTERVAL_MS * (PART_MAX_ON_FIELD - k))]]

CrowdInit == \E sp \in BOOLEAN : Running(LateClock, CrowdState(sp), 1)

CrowdFrame(d, r, evs) == Frame(d, r, evs)

\* nobody is near a part
CrowdEventSets(st) == { s \in EventSets(st) : \A e \in s : e.t # "pick" }

CrowdNext ==
  \E d \in Deltas, r \in Rolls, evs \in CrowdEventSets(state) : CrowdFrame(d, r, evs)

CrowdSpec == CrowdInit /\ [][CrowdNext]_vars

\* C27: in every reachable state the number of parts on the field, score
\* orbs included, is at most PART_MAX_ON_FIELD.
C27_FieldCapacity == Len(state.partsOnField) <= PART_MAX_ON_FIELD

\* C28: after respawnFighter of either fighter while a boss is alive, the
\* fighter is at least 420 px from the boss, wherever the boss stands, its
\* home point included.
C28_SpawnDistance ==
  (hist.op = "respawnPosition" /\ hist.out) =>
    dist2(hist.moved.x, hist.moved.y, hist.ent.x, hist.ent.y) >= 420 * 420

\* the whole number nearest to n / d, halves upwards
Nearest(n, d) == CHOOSE k \in 0..n : 2 * n - d < 2 * k * d /\ 2 * k * d <= 2 * n + d

\* the stats of f are those its edges and plasma level give
StatsMatch(f) ==
  LET extra == IF f.edges > 4 THEN f.edges - 4 ELSE 0
  IN /\ f.atk = Nearest(100 + 12 * extra, 10) + 2 * f.plasma
     /\ f.def = Nearest(100 + 11 * extra, 10)
     /\ f.maxHp = Nearest(1000 + 22 * extra, 10)

PlasmaChanged == hist.op \in {"addPlasma", "pickupPart"} /\ hist.after.plasma # hist.before.plasma

\* C29: the derived stats of each fighter match its progression (extra =
\* max(0, edges - 4): atk = round(10 + 1.2 extra) + 2 plasma, def =
\* round(10 + 1.1 extra), maxHp = round(100 + 2.2 extra)), and a plasma level
\* change alters atk only.
C29_DerivedStats ==
  /\ StatsMatch(state.player)
  /\ StatsMatch(state.botPlayer)
  /\ PlasmaChanged =>
       /\ hist.after.def = hist.before.def
       /\ hist.after.maxHp = hist.before.maxHp
       /\ hist.after.atk = hist.before.atk + 2 * (hist.after.plasma - hist.before.plasma)

\* the third edge part collected at PLAYER_EDGE_CAP raised the plasma level
C29_Witness ==
  /\ PlasmaChanged
  /\ hist.op = "pickupPart"
  /\ state.player = hist.after
  /\ hist.after.plasma = hist.before.plasma + 1

\* C30: in each tick the bot's behaviour is selected by strict priority:
\* Escape while now < escapeUntil (no steering, no wave cast), otherwise
\* Boss-kite when a boss is alive within 520 px (steering away from it),
\* otherwise Seek (to a part that is no score orb, else to the player); the
\* bot casts its wave only outside Escape and only with a wave level above 0.
C30_BotPriority ==
  \A t \in BotTicks :
    LET b == t.bot
        escaping == t.now < b.escBefore
    IN /\ escaping => b.mode = "escape" /\ b.target = "none" /\ ~b.called
       /\ (~escaping /\ b.boss /\ b.near) => b.mode = "kite" /\ b.target = "away"
       /\ (~escaping /\ ~(b.boss /\ b.near)) =>
            /\ b.mode = "seek"
            /\ b.loose => b.target = "part"
            /\ ~b.loose => b.target = "player"
       /\ b.called => ~escaping /\ b.wave > 0
       /\ (~escaping /\ b.wave > 0 /\ b.roll) => b.called

\* a tick in Escape with a boss alive and near, in which the bot has a wave
\* level and the wave roll succeeds, and no wave is cast
C30_Witness ==
  \E t \in BotTicks :
    /\ t.now < t.bot.escBefore
    /\ t.bot.boss /\ t.bot.near
    /\ t.bot.wave > 0 /\ t.bot.roll
    /\ t.bot.mode = "escape" /\ ~t.bot.called

(***************************************************************************)
(* The unoptimized variant (src/unnamed/part_000): the attacker's side of  *)
(* applyDamage, with the plasma bonus of the player re-armed by a quiet    *)
(* window.  pickupPart, addPlasma and recomputeFighterStats of the variant *)
(* are those of src/game.js as far as the fighter's fields go.             *)
(***************************************************************************)
PLASMA_PRIME_TIME_MS == 1200

\* applyDamage(attacker, defender, now, extraMult, fromWave) of the variant:
\* the attacker it leaves, whether the call got past the cooldown, and mult
legacyApplyDamage(a, isPlayer, now, extraMult_x100, fromWave) ==
  IF a.hitReadyAt > now /\ ~fromWave THEN [p |-> a, hit |-> FALSE, mult_x100 |-> 0]
  ELSE
    LET a1 == [a EXCEPT !.hitReadyAt = now + HIT_COOLDOWN_MS]
        bonus == isPlayer /\ a1.plasma > 0
        a2 == IF bonus /\ now - a1.lastLandedHitAt > PLASMA_PRIME_TIME_MS
                THEN [a1 EXCEPT !.plasmaPrimed = TRUE] ELSE a1
        strike == bonus /\ a2.plasmaPrimed
        a3 == IF strike THEN [a2 EXCEPT !.plasmaPrimed = FALSE] ELSE a2
    IN [p |-> IF isPlayer THEN [a3 EXCEPT !.lastLandedHitAt = now] ELSE a3,
        hit |-> TRUE,
        mult_x100 |-> IF strike THEN extraMult_x100 * PLASMA_FIRST_HIT_MULT
                      ELSE extraMult_x100]

\* respawnFighter(p, isPlayer) of the variant
legacyRespawnFighter(p) ==
  LET q == recomputeFighterStats(p)
  IN [q EXCEPT !.hp = Milli(q.maxHp),
               !.plasmaPrimed = TRUE,
               !.lastLandedHitAt = -1000000000,
               !.stuckFrames = 0,
               !.escapeUntil = 0]

LegacySteps == 3

\* the player as created, and at the edge cap with k edge parts towards the
\* next plasma level, before its first hit
LegacyFighters ==
  { makePlayer }
    \cup { [GrownFighter(PLAYER_EDGE_CAP, 0, pl) EXCEPT !.plasmaParts = @ + k] :
             pl \in {0, 1}, k \in {0, PARTS_PER_PLASMA - 1} }

LegacyInit == \E f \in LegacyFighters : FnStart(f, "legacy")

LegacyProbe == hist.probe = "legacy" /\ steps < LegacySteps

\* the player's melee range test succeeds d ms later: applyDamage(p, e, now)
LegacyHit(d) ==
  /\ LegacyProbe
  /\ clock' = clock + d
  /\ LET r == legacyApplyDamage(state.player, TRUE, clock + d, 100, FALSE)
     IN /\ state' = [state EXCEPT !.player = r.p]
        /\ hist' = [hist EXCEPT
                      !.op = "applyDamage",
                      !.before = state.player, !.after = r.p,
                      !.trail = IF r.hit
                                  THEN Append(@, [now |-> clock + d,
                                                  mult_x100 |-> r.mult_x100,
                                                  plasma |-> state.player.plasma,
                                                  last |-> state.player.lastLandedHitAt])
                                  ELSE @]
  /\ steps' = steps + 1
  /\ UNCHANGED <<paused, lastT, loopRunning, pending, keys>>

\* the player collects an edge part
LegacyPickup ==
  /\ LegacyProbe
  /\ state' = [state EXCEPT !.player = pickupPart(state.player, Part("edge", 0, clock))]
  /\ hist' = [hist EXCEPT !.op = "pickupPart", !.before = state.player,
                          !.after = pickupPart(state.player, Part("edge", 0, clock))]
  /\ steps' = steps + 1
  /\ UNCHANGED <<clock, paused, lastT, loopRunning, pending, keys>>

\* the player is eliminated: respawnFighter(p, true)
LegacyRespawn ==
  /\ LegacyProbe
  /\ state' = [state EXCEPT !.player = legacyRespawnFighter(state.player)]
  /\ hist' = [hist EXCEPT !.op = "respawnFighter", !.before = state.player,
                          !.after = legacyRespawnFighter(state.player)]
  /\ steps' = steps + 1
  /\ UNCHANGED <<clock, paused, lastT, loopRunning, pending, keys>>

\* time between two hits: the melee cooldown, the priming window, and more
LegacyDeltas == {HIT_COOLDOWN_MS, PLASMA_PRIME_TIME_MS, PLASMA_PRIME_TIME_MS + 1}

LegacyNext ==
  \/ \E d \in LegacyDeltas : LegacyHit(d)
  \/ LegacyPickup
  \/ LegacyRespawn

LegacySpec == LegacyInit /\ [][LegacyNext]_vars

(***************************************************************************)
(* Progression: one fighter collecting parts and being respawned.          *)
(***************************************************************************)
PartsSteps == 4

\* a fighter that has collected the given numbers of edge parts and wave
\* parts and nothing else
Collector(edgeParts, waveParts) ==
  LET toCap == PARTS_PER_EDGE * (PLAYER_EDGE_CAP - 4)
      parts == Min(edgeParts, toCap)
      plasmaParts == edgeParts - parts
  IN recomputeFighterStats(
       [makePlayer EXCEPT
          !.parts = parts,
          !.edges = 4 + parts \div PARTS_PER_EDGE,
          !.plasmaParts = plasmaParts,
          !.plasma = Min(PLASMA_MAX, plasmaParts \div PARTS_PER_PLASMA),
          !.waveParts = waveParts,
          !.wave = Min(WAVE_MAX, waveParts \div WAVE_PARTS_PER_LEVEL),
          !.score = SCORE_PER_EDGE_PART * edgeParts + SCORE_PER_WAVE_PART * waveParts])

\* the new fighter, and fighters about to reach the edge cap, the first
\* plasma level, the plasma cap and the wave cap
PartsFighters ==
  { Collector(0, 0), Collector(64, 1), Collector(67, 14),
    Collector(66 + 28, 15), Collector(66 + 31, 17) }

PartsInit == \E f \in PartsFighters : FnStart(f, "parts")

PartsProbe == hist.probe = "parts" /\ steps < PartsSteps

\* the fighter collects a part: pickupPart(p, part)
PartsPickup(kind) ==
  /\ PartsProbe
  /\ state' = [state EXCEPT !.player = pickupPart(state.player, Part(kind, 25, clock))]
  /\ hist' = [hist EXCEPT !.op = "pickupPart", !.before = state.player,
                          !.after = pickupPart(state.player, Part(kind, 25, clock))]
  /\ steps' = steps + 1
  /\ UNCHANGED <<clock, paused, lastT, loopRunning, pending, keys>>

\* the fighter is brought to 0 health: respawnFighter(p, true)
PartsRespawn ==
  /\ PartsProbe
  /\ state' = [state EXCEPT !.player = respawnFighter(state.player, TRUE, clock)]
  /\ hist' = [hist EXCEPT !.op = "respawnFighter", !.before = state.player,
                          !.after = respawnFighter(state.player, TRUE, clock)]
  /\ steps' = steps + 1
  /\ UNCHANGED <<clock, paused, lastT, loopRunning, pending, keys>>

PartsNext ==
  \/ \E kind \in PartKinds \cup {"score"} : PartsPickup(kind)
  \/ PartsRespawn

PartsSpec == PartsInit /\ [][PartsNext]_vars

(***************************************************************************)
(* First strike, enemy variants and the loop.                              *)
(***************************************************************************)
Hits == { c \in Calls : c.outcome = "hit" }

\* the hit was multiplied by PLASMA_FIRST_HIT_MULT: a melee hit has no other
\* multiplier, and the multiplier of a wave is between 2.0 and 2.8
FirstStrike(c) ==
  IF c.fromWave THEN c.mult_x100 >= 3 * WAVE_DAMAGE_MULT_x100
  ELSE c.mult_x100 = 300

\* C31: a hit gets the x3 first-strike multiplier only if the attacker is a
\* fighter whose primed flag is set and whose plasma level is above 0; that
\* hit clears the flag, and a hit of an attacker whose flag is clear gets no
\* first-strike multiplier.
C31_FirstStrike ==
  \A c \in Hits :
    /\ FirstStrike(c) =>
         isFighter(c.att) /\ c.attPrimedBefore /\ c.attPlasma > 0 /\ ~c.attPrimedAfter
    /\ ~c.attPrimedBefore => ~FirstStrike(c)

\* the stats makeEnemy gives an enemy of the given variant and edge count
VariantStats(type, edges) ==
  LET base == computeStats(edges)
  IN [atk |-> IF type = "brute" THEN base.atk + 2
              ELSE IF type = "skitter" THEN base.atk - 1 ELSE base.atk,
      def |-> IF type = "skitter" THEN base.def - 1 ELSE base.def,
      maxHp |-> IF type = "brute" THEN Nearest(base.maxHp * 125, 100)
                ELSE IF type = "skitter" THEN Nearest(base.maxHp * 85, 100)
                ELSE base.maxHp]

\* C32: every enemy's attack, defense and max health stay scaled by its
\* variant for its whole life (brute: attack +2, max health x1.25; skitter:
\* attack -1, defense -1, max health x0.85, relative to computeStats(edges)),
\* also after its edge count has increased.
C32_VariantScaling ==
  \A i \in EnemyIds :
    LET e == state.enemies[i]
        v == VariantStats(e.type, e.edges)
    IN e.atk = v.atk /\ e.def = v.def /\ e.maxHp = v.maxHp

LegacyHits == { hist.trail[i] : i \in 1..Len(hist.trail) }

\* C33: in the unoptimized variant a hit by the player is multiplied by 3
\* only if the player's plasma level is above 0 and more than
\* PLASMA_PRIME_TIME_MS have passed since the player's previous landed hit
\* (or the player has landed no hit since reset or respawn); every other
\* hit gets no first-strike multiplier.
C33_LegacyPrime ==
  hist.probe = "legacy" =>
    \A h \in LegacyHits :
      h.mult_x100 = 300 =>
        /\ h.plasma > 0
        /\ h.last = -1000000000 \/ h.now - h.last > 1200

\* C34: whenever the game is not paused a tick callback is pending, also
\* after a reset command issued while paused, and loopRunning is true
\* exactly when a tick callback is pending.
C34_LoopAlive ==
  /\ ~paused => pending >= 1
  /\ loopRunning <=> pending >= 1

\* C35: every enemy of every variant, and the boss, has 0 <= hp <= maxHp in
\* every reachable state, from creation at reset through pickups, damage and
\* respawn.
C35_EnemyHealth ==
  /\ \A i \in EnemyIds :
       0 <= state.enemies[i].hp /\ state.enemies[i].hp <= Milli(state.enemies[i].maxHp)
  /\ bossAlive(state) => 0 <= state.boss.hp /\ state.boss.hp <= Milli(state.boss.maxHp)

\* the two calls of a mutual exchange: applyDamage(a, b, now); applyDamage(b, a, now)
ExchangePair(c1, c2) ==
  /\ ~c1.fromWave /\ ~c2.fromWave
  /\ c1.outcome # "throw" /\ c2.outcome # "throw"
  /\ c2.att = c1.def /\ c2.def = c1.att /\ c2.now = c1.now

\* the call brought the defender's health to 0 and respawned it elsewhere
Respawned(c) == c.outcome = "hit" /\ c.ko /\ c.branch \in {"pvp", "enemy", "fighter"}

\* C36: melee damage is applied only between entities within hit range at
\* that moment: an entity that the first hit of a mutual exchange brought to
\* 0 health, and that was respawned elsewhere, deals no damage back in the
\* same exchange.
C36_NoHitFromAfar ==
  \A t \in Ticks :
    \A i \in 1..(Len(t.calls) - 1) :
      (ExchangePair(t.calls[i], t.calls[i + 1]) /\ Respawned(t.calls[i]))
        => t.calls[i + 1].outcome # "hit"

\* C37: at the end of every tick every fighter, every enemy and the boss (if
\* alive) has health above 0: a hit that brings health to 0 respawns the
\* entity at full health, or removes the boss, within the same applyDamage
\* call, so that no later step sees an entity with health 0.
C37_NobodyDown ==
  /\ \A f \in Fighters : f.hp > 0
  /\ \A i \in EnemyIds : state.enemies[i].hp > 0
  /\ bossAlive(state) => state.boss.hp > 0
  /\ \A c \in Hits : c.branch # "boss" => c.defHpAfter > 0
  /\ \A c \in Kills : c.branch = "boss" => ~c.bossAfter

\* an enemy was brought to 0 health in the last frame and is back at full
\* health, and every tick of the frame ran to its end
C37_Witness ==
  /\ \E c \in Kills : c.branch = "enemy" /\ c.defHpAfter > c.defHpBefore
  /\ \A t \in Ticks : t.ran /\ ~t.threw

\* the levels of f are those its part counters give
LevelsMatch(f) ==
  /\ f.edges = (IF 4 + f.parts \div 3 < 26 THEN 4 + f.parts \div 3 ELSE 26)
  /\ f.plasma = (IF f.plasmaParts \div 3 < 10 THEN f.plasmaParts \div 3 ELSE 10)
  /\ f.wave = (IF f.waveParts \div 2 < 8 THEN f.waveParts \div 2 ELSE 8)
  /\ f.plasma > 0 => f.edges = PLAYER_EDGE_CAP

NoLevelLost(f, g) == g.edges >= f.edges /\ g.plasma >= f.plasma /\ g.wave >= f.wave

\* C38: each fighter has edges = min(26, 4 + floor(parts / 3)), plasma =
\* min(10, floor(plasmaParts / 3)) and wave = min(8, floor(waveParts / 2));
\* plasma > 0 only at the edge cap; and edges, plasma and wave never
\* decrease, also across respawn.
C38_Progression ==
  /\ [](LevelsMatch(state.player) /\ LevelsMatch(state.botPlayer))
  /\ [][NoLevelLost(state.player, state'.player)
          /\ NoLevelLost(state.botPlayer, state'.botPlayer)]_vars

\* a fighter with plasma and wave levels has been respawned
C38_Witness ==
  /\ hist.probe = "parts"
  /\ hist.op = "respawnFighter"
  /\ state.player.plasma > 0 /\ state.player.wave > 0
  /\ NoLevelLost(hist.before, state.player)
  /\ state.player = hist.after

\* the entity lies inside the world inset by its own radius
InsideWorld(e) ==
  /\ e.r <= e.x /\ e.x <= WORLD_W - e.r
  /\ e.r <= e.y /\ e.y <= WORLD_H - e.r

\* C39: after every moveEntity call and every respawn the entity lies inside
\* the world inset by its own radius, although the obstacle push-out is
\* applied after the bounds clamp, for the obstacle layouts buildObstacles
\* can produce.
C39_InsideWorld ==
  hist.op \in {"moveEntity", "respawnPosition"} => InsideWorld(hist.moved)

\* an obstacle in the corner has pushed an entity towards the border, past
\* the place the bounds clamp had left it
C39_Witness ==
  /\ hist.op = "moveEntity"
  /\ hist.moved # hist.target
  /\ hist.moved.x < hist.target.x \/ hist.moved.y < hist.target.y
  /\ hist.moved.x < 100 \/ hist.moved.y < 100

\* C40: a bot that moves freely at unit steering velocity is not counted as
\* stuck: for every frame delta up to 33 ms, the frame does not increment
\* stuckFrames, and so does not put the bot into Escape.
C40_FreeBotNotStuck ==
  hist.op = "updateBot" =>
    /\ hist.frame.stuckAfter <= hist.frame.stuckBefore
    /\ ~hist.out

====
